---- MODULE Spec2Model ----
(***************************************************************************)
(* Command lifecycle of lsst.ts.salpytools: the command receiver           *)
(* (DDSController: polling thread + reply thread) and the command sender   *)
(* (DDSSend: ack poller thread + blocking waits), connected by the SAL     *)
(* transport (acceptCommand / ackCommand / issueCommand / getResponse).    *)
(***************************************************************************)
EXTENDS Integers, Sequences, FiniteSets, TLC

(***************************************************************************)
(* Bounds of the model.                                                    *)
(***************************************************************************)
\* number of commands the transport hands out ids for
MaxCmd == 2

(***************************************************************************)
(* Program constants (salpylib.py 33-41).                                  *)
(***************************************************************************)
SAL__CMD_ABORTED == -303
SAL__CMD_ACK == 300
SAL__CMD_COMPLETE == 303
SAL__CMD_FAILED == -302
SAL__CMD_INPROGRESS == 301
SAL__CMD_NOACK == -301
SAL__CMD_NOPERM == -300
SAL__CMD_STALLED == 302
SAL__CMD_TIMEOUT == -304

\* DDSSend(timeout=...), in ticks
Timeout == 2
\* DDSSend(sleeptime=...), in ticks
SleepTime == 1
\* number of acks a remote component sends when no DDSController is modelled
MaxAcks == 2

\* the command ids issueCommand hands out (positive, never reused)
Ids == 1..MaxCmd

\* one DDSController per command topic, all built on the same context
Controllers == {"enable", "disable"}

\* self.COMMAND = self.command.upper()
COMMAND(k) == IF k = "enable" THEN "ENABLE" ELSE "DISABLE"

\* what context.execute_command can do: return (err, message), raise
\* StateTransitionException, or raise another exception
Outcomes ==
  { [kind |-> "return", err |-> 0, message |-> "DONE"],
    [kind |-> "return", err |-> 2, message |-> "WARN"],
    [kind |-> "StateTransitionException", err |-> 0, message |-> ""],
    [kind |-> "ValueError", err |-> 0, message |-> ""] }

NoOutcome == [kind |-> "none", err |-> 0, message |-> ""]

\* "{} exception occurred when running {}.".format(exception.__class__.__name__, self.COMMAND)
FailedMessage(exc, cmd) ==
  IF exc = "ValueError" /\ cmd = "ENABLE"
    THEN "ValueError exception occurred when running ENABLE."
  ELSE IF exc = "ValueError" /\ cmd = "DISABLE"
    THEN "ValueError exception occurred when running DISABLE."
  ELSE "exception occurred when running."

Ack(code, err, message) == <<code, err, message>>

\* threads that use the DDSSend object
Callers == {"c1"}

\* the commands the callers send
SendCmds == {"enable"}

\* timeout=None
NoArg == -1

\* explicit timeout arguments, in ticks
TimeoutArgs == {1}

\* no wait call has returned yet
NoReturn == <<0, <<>>>>

Min(a, b) == IF a < b THEN a ELSE b

Last(s) == s[Len(s)]

VARIABLES
  \* transport, command side
  nextId,         \* next id issueCommand returns
  cmd_topic,      \* id -> topic (controller) the command was issued on
  inbox,          \* controller -> ids issued and not yet accepted
  acks,           \* id -> the ackCommand calls made on it, in order
  \* DDSController
  shutdown_flag,  \* controller -> BOOLEAN
  c_pc,           \* controller -> position of run_command
  cmdId,          \* controller -> local cmdId of run_command
  reply_thread,   \* controller -> id whose thread is self.reply_thread, 0 = None
  newControl,     \* controller -> BOOLEAN
  \* reply threads, one per started thread, named by the cmdid passed to it
  t_pc,           \* id -> position of reply_to_transition
  t_outcome,      \* id -> what execute_command did
  \* DDSSend
  timeout,        \* self.timeout
  cmd_responses,  \* registered id -> [cmd, ack, event]
  delivered,      \* id -> number of its acks getResponse has handed over
  p_pc,           \* position of the poller thread (DDSSend.run)
  p_response,     \* local response of run, 0 = no ack
  p_ack,          \* self.ack as read after getResponse
  p_slept,        \* ticks spent in time.sleep(self.sleeptime)
  p_iter,         \* iterator of the clear-all loop over self.cmd_responses
  \* threads calling send_Command / waitForCompletion / waitForInProgress
  w_pc,           \* caller -> position
  w_kind,         \* caller -> "completion" or "inprogress"
  w_cmdid,        \* caller -> argument cmdid
  w_tout,         \* caller -> local tout
  w_elapsed,      \* caller -> time.time() - start_time, in ticks
  w_waited,       \* caller -> ticks spent blocked in event.wait
  w_notified,     \* caller -> the event was set while blocked in event.wait
  w_got,          \* caller -> local got_response
  w_timeout,      \* caller -> argument timeout
  w_wait,         \* caller -> local wait_command of send_Command (FALSE outside it)
  w_ret,          \* caller -> value returned by the last wait call
  w_start,        \* caller -> acks recorded for cmdid when its wait call began
                  \* (written by WaitCallFrom only)
  \* lifecycle: the context and the state handlers
  current_state,  \* name of the state the context is in
  l_last,         \* the last call made on the context and how it ended
  summary,        \* SummaryStateValue of the last SummaryState event sent
  \* DDSSubscriberThread
  s_topic,        \* self.topic, as the pieces of the string
  s_pc,           \* position: "new", "constructed", "subscribed" or "raised"
  s_tag,          \* self.subsystem_tag
  is_command,     \* self.is_command
  is_event,       \* self.is_event
  is_telemetry,   \* self.is_telemetry
  s_sub,          \* the subscription asked of the manager
  \* bookkeeping on the run
  p_intime,       \* id -> its last recorded ack is terminal and was appended while
                  \* a waitForCompletion call for the id had not reached its
                  \* deadline (written by PollStoreAt only)
  c_answered,     \* controller -> when it accepted its last command, the terminal
                  \* ack of the command before had been sent (written by
                  \* CtlAcceptAt only)
  l_origin        \* the state the context was constructed in (never written)

ctlvars == <<nextId, cmd_topic, inbox, acks, shutdown_flag, c_pc, cmdId,
             reply_thread, newControl, t_pc, t_outcome>>

sendvars == <<timeout, cmd_responses, delivered, p_pc, p_response, p_ack, p_slept,
              p_iter>>

callvars == <<w_pc, w_kind, w_cmdid, w_tout, w_elapsed, w_waited, w_notified,
              w_got, w_timeout, w_wait, w_ret, w_start>>

lifevars == <<current_state, l_last, summary>>

subvars == <<s_topic, s_pc, s_tag, is_command, is_event, is_telemetry, s_sub>>

markvars == <<p_intime, c_answered, l_origin>>

vars == <<ctlvars, sendvars, callvars, lifevars, subvars, markvars>>

(***************************************************************************)
(* Transport.                                                              *)
(***************************************************************************)
\* mgr.ackCommand_<command>(cmdid, code, err, message)
ackCommand(id, a) == [acks EXCEPT ![id] = Append(@, a)]

\* another component issues a command on the controller's topic
Issue(k) ==
  /\ nextId <= MaxCmd
  /\ inbox' = [inbox EXCEPT ![k] = Append(@, nextId)]
  /\ cmd_topic' = [cmd_topic EXCEPT ![nextId] = k]
  /\ nextId' = nextId + 1
  /\ UNCHANGED <<acks, shutdown_flag, c_pc, cmdId, reply_thread, newControl,
                 t_pc, t_outcome>>
  /\ UNCHANGED <<sendvars, callvars>>
  /\ UNCHANGED <<lifevars, subvars, markvars>>

(***************************************************************************)
(* DDSController.run_command, one step per statement.                      *)
(***************************************************************************)
\* variant: the busy test never finds a live reply thread
IsAlive_never(k) == FALSE

\* self.reply_thread is not None and self.reply_thread.is_alive()
IsAlive(k) == reply_thread[k] # 0 /\ t_pc[reply_thread[k]] # "dead"

\* variant: the loop is 'while True', the shutdown flag is not read
CtlLoop_ignore(k) ==
  /\ c_pc[k] = "loop"
  /\ c_pc' = [c_pc EXCEPT ![k] = "accept"]
  /\ UNCHANGED <<nextId, cmd_topic, inbox, acks, shutdown_flag, cmdId,
                 reply_thread, newControl, t_pc, t_outcome>>
  /\ UNCHANGED <<sendvars, callvars>>
  /\ UNCHANGED <<lifevars, subvars, markvars>>

\* time.sleep(self.tsleep) of the previous iteration, then
\* while not self.shutdown_flag.is_set():
CtlLoop(k) ==
  /\ c_pc[k] = "loop"
  /\ c_pc' = [c_pc EXCEPT ![k] = IF shutdown_flag[k] THEN "stopped" ELSE "accept"]
  /\ UNCHANGED <<nextId, cmd_topic, inbox, acks, shutdown_flag, cmdId,
                 reply_thread, newControl, t_pc, t_outcome>>
  /\ UNCHANGED <<sendvars, callvars>>
  /\ UNCHANGED <<lifevars, subvars, markvars>>

\* cmdId = self.mgr_acceptCommand(self.myData); if cmdId > 0:
CtlAccept(k) ==
  /\ c_pc[k] = "accept"
  /\ IF inbox[k] # <<>>
       THEN /\ cmdId' = [cmdId EXCEPT ![k] = Head(inbox[k])]
            /\ inbox' = [inbox EXCEPT ![k] = Tail(@)]
            /\ c_pc' = [c_pc EXCEPT ![k] = "ack"]
       ELSE /\ cmdId' = [cmdId EXCEPT ![k] = 0]
            /\ inbox' = inbox
            /\ c_pc' = [c_pc EXCEPT ![k] = "loop"]
  /\ UNCHANGED <<nextId, cmd_topic, acks, shutdown_flag, reply_thread,
                 newControl, t_pc, t_outcome>>
  /\ UNCHANGED <<sendvars, callvars>>
  /\ UNCHANGED <<lifevars, subvars, markvars>>

\* the same step, with c_answered written: whether the reply thread of the
\* command before has sent its COMPLETE, NOPERM or FAILED ack
CtlAcceptAt(k) ==
  /\ c_pc[k] = "accept"
  /\ IF inbox[k] # <<>>
       THEN /\ cmdId' = [cmdId EXCEPT ![k] = Head(inbox[k])]
            /\ inbox' = [inbox EXCEPT ![k] = Tail(@)]
            /\ c_pc' = [c_pc EXCEPT ![k] = "ack"]
            /\ c_answered' = [c_answered EXCEPT ![k] =
                  /\ reply_thread[k] # 0
                  /\ \E i \in 1..Len(acks[reply_thread[k]]) :
                       acks[reply_thread[k]][i][1] \in
                         {SAL__CMD_COMPLETE, SAL__CMD_NOPERM, SAL__CMD_FAILED}]
       ELSE /\ cmdId' = [cmdId EXCEPT ![k] = 0]
            /\ inbox' = inbox
            /\ c_pc' = [c_pc EXCEPT ![k] = "loop"]
            /\ c_answered' = c_answered
  /\ UNCHANGED <<p_intime, l_origin>>
  /\ UNCHANGED <<nextId, cmd_topic, acks, shutdown_flag, reply_thread,
                 newControl, t_pc, t_outcome>>
  /\ UNCHANGED <<sendvars, callvars>>
  /\ UNCHANGED <<lifevars, subvars>>

\* variant: the receipt is not acknowledged before the busy test
CtlAck_skip(k) ==
  /\ c_pc[k] = "ack"
  /\ c_pc' = [c_pc EXCEPT ![k] = "busy"]
  /\ UNCHANGED <<nextId, cmd_topic, inbox, acks, shutdown_flag, cmdId,
                 reply_thread, newControl, t_pc, t_outcome>>
  /\ UNCHANGED <<sendvars, callvars>>
  /\ UNCHANGED <<lifevars, subvars, markvars>>

\* self.mgr_ackCommand(cmdId, SAL__CMD_ACK, 0, "Command received : OK")
CtlAck(k) ==
  /\ c_pc[k] = "ack"
  /\ acks' = ackCommand(cmdId[k], Ack(SAL__CMD_ACK, 0, "Command received : OK"))
  /\ c_pc' = [c_pc EXCEPT ![k] = "busy"]
  /\ UNCHANGED <<nextId, cmd_topic, inbox, shutdown_flag, cmdId, reply_thread,
                 newControl, t_pc, t_outcome>>
  /\ UNCHANGED <<sendvars, callvars>>
  /\ UNCHANGED <<lifevars, subvars, markvars>>

\* if self.reply_thread is not None and self.reply_thread.is_alive():
CtlBusy(k) ==
  /\ c_pc[k] = "busy"
  /\ c_pc' = [c_pc EXCEPT ![k] = IF IsAlive(k) THEN "noperm" ELSE "start"]
  /\ UNCHANGED <<nextId, cmd_topic, inbox, acks, shutdown_flag, cmdId,
                 reply_thread, newControl, t_pc, t_outcome>>
  /\ UNCHANGED <<sendvars, callvars>>
  /\ UNCHANGED <<lifevars, subvars, markvars>>

\* variant: the else of the busy test is missing, the reply thread is started
\* after the NOPERM ack
CtlNoperm_fallthrough(k) ==
  /\ c_pc[k] = "noperm"
  /\ acks' = [acks EXCEPT ![cmdId[k]] =
                Append(@, <<SAL__CMD_NOPERM, -1, "Still replying to a previous command!">>)]
  /\ reply_thread' = [reply_thread EXCEPT ![k] = cmdId[k]]
  /\ t_pc' = [t_pc EXCEPT ![cmdId[k]] = "inprogress"]
  /\ newControl' = [newControl EXCEPT ![k] = TRUE]
  /\ c_pc' = [c_pc EXCEPT ![k] = "loop"]
  /\ UNCHANGED <<nextId, cmd_topic, inbox, shutdown_flag, cmdId, t_outcome>>
  /\ UNCHANGED <<sendvars, callvars>>
  /\ UNCHANGED <<lifevars, subvars, markvars>>

\* self.mgr_ackCommand(cmdId, SAL__CMD_NOPERM, -1, "Still replying to a previous command!")
CtlNoperm(k) ==
  /\ c_pc[k] = "noperm"
  /\ acks' = ackCommand(cmdId[k],
                Ack(SAL__CMD_NOPERM, -1, "Still replying to a previous command!"))
  /\ c_pc' = [c_pc EXCEPT ![k] = "loop"]
  /\ UNCHANGED <<nextId, cmd_topic, inbox, shutdown_flag, cmdId, reply_thread,
                 newControl, t_pc, t_outcome>>
  /\ UNCHANGED <<sendvars, callvars>>
  /\ UNCHANGED <<lifevars, subvars, markvars>>

\* self.reply_thread = threading.Thread(target=self.reply_to_transition, args=(cmdId, ))
\* self.reply_thread.start(); self.newControl = True
CtlStart(k) ==
  /\ c_pc[k] = "start"
  /\ reply_thread' = [reply_thread EXCEPT ![k] = cmdId[k]]
  /\ t_pc' = [t_pc EXCEPT ![cmdId[k]] = "inprogress"]
  /\ newControl' = [newControl EXCEPT ![k] = TRUE]
  /\ c_pc' = [c_pc EXCEPT ![k] = "loop"]
  /\ UNCHANGED <<nextId, cmd_topic, inbox, acks, shutdown_flag, cmdId, t_outcome>>
  /\ UNCHANGED <<sendvars, callvars>>
  /\ UNCHANGED <<lifevars, subvars, markvars>>

\* DDSController.stop
Stop(k) ==
  /\ ~shutdown_flag[k]
  /\ shutdown_flag' = [shutdown_flag EXCEPT ![k] = TRUE]
  /\ UNCHANGED <<nextId, cmd_topic, inbox, acks, c_pc, cmdId, reply_thread,
                 newControl, t_pc, t_outcome>>
  /\ UNCHANGED <<sendvars, callvars>>
  /\ UNCHANGED <<lifevars, subvars, markvars>>

(***************************************************************************)
(* DDSController.reply_to_transition, run by the reply thread of id.       *)
(***************************************************************************)
\* variant: only StateTransitionException is handled, any other outcome is
\* reported as a success
TerminalAcks_success(cmd, o) ==
  IF o.kind = "StateTransitionException"
    THEN << <<SAL__CMD_NOPERM, 1, "State transition not allowed.">> >>
    ELSE << <<SAL__CMD_COMPLETE, o.err, o.message>> >>

\* variant: a single except clause, every exception is answered with FAILED
TerminalAcks_single(cmd, o) ==
  IF o.kind = "return"
    THEN << <<SAL__CMD_COMPLETE, o.err, o.message>> >>
    ELSE << <<SAL__CMD_FAILED, 1, FailedMessage(o.kind, cmd)>> >>

\* variant: the COMPLETE ack is not in an else clause, it follows the ack of
\* the except clause as well
TerminalAcks_noelse(cmd, o) ==
  IF o.kind = "StateTransitionException"
    THEN << <<SAL__CMD_NOPERM, 1, "State transition not allowed.">>,
            <<SAL__CMD_COMPLETE, o.err, o.message>> >>
  ELSE IF o.kind = "return"
    THEN << <<SAL__CMD_COMPLETE, o.err, o.message>> >>
  ELSE << <<SAL__CMD_FAILED, 1, FailedMessage(o.kind, cmd)>>,
          <<SAL__CMD_COMPLETE, o.err, o.message>> >>

\* variant: only StateTransitionException is caught, any other exception
\* ends the reply thread
TerminalAcks_uncaught(cmd, o) ==
  IF o.kind = "StateTransitionException"
    THEN << <<SAL__CMD_NOPERM, 1, "State transition not allowed.">> >>
  ELSE IF o.kind = "return"
    THEN << <<SAL__CMD_COMPLETE, o.err, o.message>> >>
  ELSE << >>

\* the ackCommand calls of the try / except / else block, by outcome
TerminalAcks(cmd, o) ==
  IF o.kind = "StateTransitionException"
    THEN << Ack(SAL__CMD_NOPERM, 1, "State transition not allowed.") >>
  ELSE IF o.kind = "return"
    THEN << Ack(SAL__CMD_COMPLETE, o.err, o.message) >>
  ELSE << Ack(SAL__CMD_FAILED, 1, FailedMessage(o.kind, cmd)) >>

RECURSIVE AppendAll(_, _)
AppendAll(s, as) == IF as = <<>> THEN s ELSE AppendAll(Append(s, Head(as)), Tail(as))

\* self.mgr_ackCommand(cmdid, SAL__CMD_INPROGRESS, 0, "Starting: OK"), then
\* self.context.execute_command(self.COMMAND, self.myData) is entered
ReplyInProgress(id) ==
  /\ t_pc[id] = "inprogress"
  /\ acks' = ackCommand(id, Ack(SAL__CMD_INPROGRESS, 0, "Starting: OK"))
  /\ t_pc' = [t_pc EXCEPT ![id] = "executing"]
  /\ UNCHANGED <<nextId, cmd_topic, inbox, shutdown_flag, c_pc, cmdId,
                 reply_thread, newControl, t_outcome>>
  /\ UNCHANGED <<sendvars, callvars>>
  /\ UNCHANGED <<lifevars, subvars, markvars>>

\* execute_command returns or raises, and the except / else branch taken
\* makes its ackCommand call
ReplyExecute(id) ==
  /\ t_pc[id] = "executing"
  /\ \E o \in Outcomes :
       /\ t_outcome' = [t_outcome EXCEPT ![id] = o]
       /\ acks' = [acks EXCEPT ![id] =
                     AppendAll(@, TerminalAcks(COMMAND(cmd_topic[id]), o))]
  /\ t_pc' = [t_pc EXCEPT ![id] = "exit"]
  /\ UNCHANGED <<nextId, cmd_topic, inbox, shutdown_flag, c_pc, cmdId,
                 reply_thread, newControl>>
  /\ UNCHANGED <<sendvars, callvars>>
  /\ UNCHANGED <<lifevars, subvars, markvars>>

\* reply_to_transition has returned; the thread stops being alive
ReplyExit(id) ==
  /\ t_pc[id] = "exit"
  /\ t_pc' = [t_pc EXCEPT ![id] = "dead"]
  /\ UNCHANGED <<nextId, cmd_topic, inbox, acks, shutdown_flag, c_pc, cmdId,
                 reply_thread, newControl, t_outcome>>
  /\ UNCHANGED <<sendvars, callvars>>
  /\ UNCHANGED <<lifevars, subvars, markvars>>

(***************************************************************************)
(* DDSSend.run: the poller thread.                                         *)
(***************************************************************************)
\* if len(self.cmd_responses) > 0: response = self.manager.getResponse_enable(self.ack)
\* getResponse hands over the next ack of some command, or none
PollGet ==
  /\ p_pc = "poll"
  /\ IF DOMAIN cmd_responses = {}
       THEN /\ p_pc' = "sleep"
            /\ p_slept' = 0
            /\ UNCHANGED <<p_response, p_ack, delivered>>
       ELSE \/ \E id \in Ids :
                 /\ delivered[id] < Len(acks[id])
                 /\ p_response' = id
                 /\ p_ack' = acks[id][delivered[id] + 1]
                 /\ delivered' = [delivered EXCEPT ![id] = @ + 1]
                 /\ p_pc' = "store"
                 /\ p_slept' = p_slept
            \/ /\ p_response' = 0
               /\ p_pc' = "sleep"
               /\ p_slept' = 0
               /\ UNCHANGED <<p_ack, delivered>>
  /\ UNCHANGED <<timeout, cmd_responses, p_iter>>
  /\ UNCHANGED <<ctlvars, callvars>>
  /\ UNCHANGED <<lifevars, subvars, markvars>>

\* variant: the ack of an unregistered id is recorded under a new entry
PollStore_create ==
  /\ p_pc = "store"
  /\ IF p_response \in DOMAIN cmd_responses
       THEN /\ cmd_responses' = [cmd_responses EXCEPT ![p_response].ack = Append(@, p_ack)]
            /\ p_pc' = "set"
            /\ p_slept' = p_slept
            /\ UNCHANGED <<p_response, p_ack>>
       ELSE /\ cmd_responses' =
                 [id \in DOMAIN cmd_responses \cup {p_response} |->
                    IF id = p_response
                      THEN [cmd |-> "none", ack |-> <<p_ack>>, event |-> FALSE]
                      ELSE cmd_responses[id]]
            /\ p_pc' = "sleep"
            /\ p_slept' = 0
            /\ p_response' = 0
            /\ p_ack' = <<>>
  /\ UNCHANGED <<timeout, delivered, p_iter>>
  /\ UNCHANGED <<ctlvars, callvars>>
  /\ UNCHANGED <<lifevars, subvars, markvars>>

\* if response in self.cmd_responses:
\*     self.cmd_responses[response]['ack'].append((self.ack.ack, self.ack.error, self.ack.result))
PollStore ==
  /\ p_pc = "store"
  /\ IF p_response \in DOMAIN cmd_responses
       THEN /\ cmd_responses' = [cmd_responses EXCEPT ![p_response].ack = Append(@, p_ack)]
            /\ p_pc' = "set"
            /\ p_slept' = p_slept
            /\ UNCHANGED <<p_response, p_ack>>
       ELSE /\ cmd_responses' = cmd_responses
            /\ p_pc' = "sleep"
            /\ p_slept' = 0
            /\ p_response' = 0
            /\ p_ack' = <<>>
  /\ UNCHANGED <<timeout, delivered, p_iter>>
  /\ UNCHANGED <<ctlvars, callvars>>
  /\ UNCHANGED <<lifevars, subvars, markvars>>

\* the same step, with p_intime written: whether the ack appended is terminal
\* and a waitForCompletion call for its id is past its sanity check and has
\* not reached its deadline
PollStoreAt ==
  /\ p_pc = "store"
  /\ IF p_response \in DOMAIN cmd_responses
       THEN /\ cmd_responses' = [cmd_responses EXCEPT ![p_response].ack = Append(@, p_ack)]
            /\ p_pc' = "set"
            /\ p_slept' = p_slept
            /\ p_intime' = [p_intime EXCEPT ![p_response] =
                  /\ p_ack[1] \notin {SAL__CMD_NOACK, SAL__CMD_ACK, SAL__CMD_INPROGRESS}
                  /\ \E c \in DOMAIN w_pc :
                       /\ w_cmdid[c] = p_response
                       /\ w_kind[c] = "completion"
                       /\ \/ w_pc[c] = "begin"
                          \/ /\ w_pc[c] \in {"loop", "blocked", "clear", "read"}
                             /\ w_elapsed[c] < w_tout[c]]
            /\ UNCHANGED <<p_response, p_ack>>
       ELSE /\ cmd_responses' = cmd_responses
            /\ p_pc' = "sleep"
            /\ p_slept' = 0
            /\ p_response' = 0
            /\ p_ack' = <<>>
            /\ p_intime' = p_intime
  /\ UNCHANGED <<c_answered, l_origin>>
  /\ UNCHANGED <<timeout, delivered, p_iter>>
  /\ UNCHANGED <<ctlvars, callvars>>
  /\ UNCHANGED <<lifevars, subvars>>

\* variant: the poller raises the signal of every registered command
PollSet_all ==
  /\ p_pc = "set"
  /\ cmd_responses' = [id \in DOMAIN cmd_responses |->
                         [cmd_responses[id] EXCEPT !.event = TRUE]]
  /\ w_notified' = [c \in Callers |-> w_notified[c] \/ w_pc[c] = "blocked"]
  /\ p_pc' = "sleep"
  /\ p_slept' = 0
  /\ p_response' = 0
  /\ p_ack' = <<>>
  /\ UNCHANGED <<timeout, delivered, p_iter>>
  /\ UNCHANGED <<w_pc, w_kind, w_cmdid, w_tout, w_elapsed, w_waited, w_got,
                 w_timeout, w_wait, w_ret>>
  /\ UNCHANGED ctlvars
  /\ UNCHANGED w_start
  /\ UNCHANGED <<lifevars, subvars, markvars>>

\* self.cmd_responses[response]['event'].set(): raises the flag and wakes the
\* threads blocked in wait() on it
PollSet ==
  /\ p_pc = "set"
  /\ cmd_responses' = [cmd_responses EXCEPT ![p_response].event = TRUE]
  /\ w_notified' = [c \in Callers |->
                      w_notified[c] \/ (w_pc[c] = "blocked" /\ w_cmdid[c] = p_response)]
  /\ p_pc' = "sleep"
  /\ p_slept' = 0
  /\ p_response' = 0
  /\ p_ack' = <<>>
  /\ UNCHANGED <<timeout, delivered, p_iter>>
  /\ UNCHANGED <<w_pc, w_kind, w_cmdid, w_tout, w_elapsed, w_waited, w_got,
                 w_timeout, w_wait, w_ret>>
  /\ UNCHANGED ctlvars
  /\ UNCHANGED w_start
  /\ UNCHANGED <<lifevars, subvars, markvars>>

\* no iteration over self.cmd_responses is going on
NoIter == [todo |-> {}, used |-> 0]

\* time.sleep(self.sleeptime) is over;
\* for cmd_id in self.cmd_responses: the iterator over the dictionary is made,
\* it remembers the size of the dictionary
PollClear ==
  /\ p_pc = "sleep"
  /\ p_slept >= SleepTime
  /\ p_iter' = [todo |-> DOMAIN cmd_responses, used |-> Cardinality(DOMAIN cmd_responses)]
  /\ p_pc' = "sweep"
  /\ p_slept' = 0
  /\ UNCHANGED <<timeout, cmd_responses, delivered, p_response, p_ack>>
  /\ UNCHANGED <<ctlvars, callvars>>
  /\ UNCHANGED <<lifevars, subvars, markvars>>

\* the key the iterator yields next (keys come in order of insertion, which is
\* the order of the ids)
NextKey(todo) == CHOOSE id \in todo : \A other \in todo : id <= other

\* one round of the for loop: the iterator is asked for the next key and raises
\* RuntimeError (dictionary changed size during iteration) when an entry was
\* inserted since it was made; the exception ends the thread. Otherwise the
\* loop is over, or self.cmd_responses[cmd_id]['event'].clear() runs
PollSweep ==
  /\ p_pc = "sweep"
  /\ IF Cardinality(DOMAIN cmd_responses) # p_iter.used
       THEN /\ p_pc' = "failed"
            /\ p_iter' = NoIter
            /\ cmd_responses' = cmd_responses
       ELSE IF p_iter.todo = {}
         THEN /\ p_pc' = "poll"
              /\ p_iter' = NoIter
              /\ cmd_responses' = cmd_responses
         ELSE /\ cmd_responses' = [cmd_responses EXCEPT ![NextKey(p_iter.todo)].event = FALSE]
              /\ p_iter' = [p_iter EXCEPT !.todo = @ \ {NextKey(p_iter.todo)}]
              /\ p_pc' = "sweep"
  /\ UNCHANGED <<timeout, delivered, p_response, p_ack, p_slept>>
  /\ UNCHANGED <<ctlvars, callvars>>
  /\ UNCHANGED <<lifevars, subvars, markvars>>

(***************************************************************************)
(* DDSSend.send_Command.                                                   *)
(***************************************************************************)
\* timeout = int(kwargs.pop('timeout', self.timeout)); self.timeout = timeout
\* cmdid = getattr(self.manager, 'issueCommand_{}'.format(cmd))(data)
SendCommand(c, k, t, wait) ==
  /\ w_pc[c] = "idle"
  /\ nextId <= MaxCmd
  /\ timeout' = IF t = NoArg THEN timeout ELSE t
  /\ inbox' = [inbox EXCEPT ![k] = Append(@, nextId)]
  /\ cmd_topic' = [cmd_topic EXCEPT ![nextId] = k]
  /\ nextId' = nextId + 1
  /\ w_cmdid' = [w_cmdid EXCEPT ![c] = nextId]
  /\ w_timeout' = [w_timeout EXCEPT ![c] = timeout']
  /\ w_wait' = [w_wait EXCEPT ![c] = wait]
  /\ w_kind' = [w_kind EXCEPT ![c] = "completion"]
  /\ w_pc' = [w_pc EXCEPT ![c] = "register"]
  /\ UNCHANGED <<w_tout, w_elapsed, w_waited, w_notified, w_got, w_ret>>
  /\ UNCHANGED <<cmd_responses, delivered, p_pc, p_response, p_ack, p_slept, p_iter>>
  /\ UNCHANGED <<acks, shutdown_flag, c_pc, cmdId, reply_thread, newControl,
                 t_pc, t_outcome>>
  /\ UNCHANGED w_start
  /\ UNCHANGED <<lifevars, subvars, markvars>>

\* Timeouts that are not whole seconds: where the timeout of the constructor or
\* of a call is a float, the clock is read in parts of a second, Unit ticks to
\* the second
Unit == 2

\* int(x) of a time of x ticks, x >= 0: the whole seconds, in ticks
int(x) == (x \div Unit) * Unit

\* send_Command(cmd, timeout=t, wait_command=wait) with the clock in parts of a
\* second: timeout = int(kwargs.pop('timeout', self.timeout)); self.timeout = timeout
SendCommandInt(c, k, t, wait) ==
  /\ w_pc[c] = "idle"
  /\ nextId <= MaxCmd
  /\ timeout' = int(IF t = NoArg THEN timeout ELSE t)
  /\ inbox' = [inbox EXCEPT ![k] = Append(@, nextId)]
  /\ cmd_topic' = [cmd_topic EXCEPT ![nextId] = k]
  /\ nextId' = nextId + 1
  /\ w_cmdid' = [w_cmdid EXCEPT ![c] = nextId]
  /\ w_timeout' = [w_timeout EXCEPT ![c] = timeout']
  /\ w_wait' = [w_wait EXCEPT ![c] = wait]
  /\ w_kind' = [w_kind EXCEPT ![c] = "completion"]
  /\ w_pc' = [w_pc EXCEPT ![c] = "register"]
  /\ UNCHANGED <<w_tout, w_elapsed, w_waited, w_notified, w_got, w_ret>>
  /\ UNCHANGED <<cmd_responses, delivered, p_pc, p_response, p_ack, p_slept, p_iter>>
  /\ UNCHANGED <<acks, shutdown_flag, c_pc, cmdId, reply_thread, newControl,
                 t_pc, t_outcome>>
  /\ UNCHANGED w_start
  /\ UNCHANGED <<lifevars, subvars, markvars>>

\* send_Command for which issueCommand returns an id it has returned before
\* ("if SAL reuses a cmdid, it will be overwritten here")
SendCommandAgain(c, k, id) ==
  /\ w_pc[c] = "idle"
  /\ id < nextId
  /\ Len(inbox[k]) < MaxCmd
  /\ inbox' = [inbox EXCEPT ![k] = Append(@, id)]
  /\ cmd_topic' = [cmd_topic EXCEPT ![id] = k]
  /\ w_cmdid' = [w_cmdid EXCEPT ![c] = id]
  /\ w_timeout' = [w_timeout EXCEPT ![c] = timeout]
  /\ w_wait' = [w_wait EXCEPT ![c] = FALSE]
  /\ w_kind' = [w_kind EXCEPT ![c] = "completion"]
  /\ w_pc' = [w_pc EXCEPT ![c] = "register"]
  /\ UNCHANGED <<w_tout, w_elapsed, w_waited, w_notified, w_got, w_ret>>
  /\ UNCHANGED sendvars
  /\ UNCHANGED <<nextId, acks, shutdown_flag, c_pc, cmdId, reply_thread, newControl,
                 t_pc, t_outcome>>
  /\ UNCHANGED w_start
  /\ UNCHANGED <<lifevars, subvars, markvars>>

\* variant: an id that is already registered keeps its ack history
SendRegister_keep(c) ==
  /\ w_pc[c] = "register"
  /\ cmd_responses' =
       [id \in DOMAIN cmd_responses \cup {w_cmdid[c]} |->
          IF id = w_cmdid[c]
            THEN [cmd |-> cmd_topic[id],
                  ack |-> IF id \in DOMAIN cmd_responses THEN cmd_responses[id].ack ELSE <<>>,
                  event |-> FALSE]
            ELSE cmd_responses[id]]
  /\ w_pc' = [w_pc EXCEPT ![c] = IF w_wait[c] THEN "check" ELSE "idle"]
  /\ w_cmdid' = [w_cmdid EXCEPT ![c] = IF w_wait[c] THEN @ ELSE 0]
  /\ w_timeout' = [w_timeout EXCEPT ![c] = IF w_wait[c] THEN @ ELSE NoArg]
  /\ UNCHANGED <<w_kind, w_tout, w_elapsed, w_waited, w_notified, w_got, w_wait, w_ret>>
  /\ UNCHANGED <<timeout, delivered, p_pc, p_response, p_ack, p_slept, p_iter>>
  /\ UNCHANGED ctlvars
  /\ UNCHANGED w_start
  /\ UNCHANGED <<lifevars, subvars, markvars>>

\* self.cmd_responses[cmdid] = {'cmd': cmd, 'ack': [], 'event': threading.Event()}
\* if wait_command: retval = self.waitForCompletion(cmdid, timeout)
SendRegister(c) ==
  /\ w_pc[c] = "register"
  /\ cmd_responses' =
       [id \in DOMAIN cmd_responses \cup {w_cmdid[c]} |->
          IF id = w_cmdid[c]
            THEN [cmd |-> cmd_topic[id], ack |-> <<>>, event |-> FALSE]
            ELSE cmd_responses[id]]
  /\ w_pc' = [w_pc EXCEPT ![c] = IF w_wait[c] THEN "check" ELSE "idle"]
  /\ w_cmdid' = [w_cmdid EXCEPT ![c] = IF w_wait[c] THEN @ ELSE 0]
  /\ w_timeout' = [w_timeout EXCEPT ![c] = IF w_wait[c] THEN @ ELSE NoArg]
  /\ UNCHANGED <<w_kind, w_tout, w_elapsed, w_waited, w_notified, w_got, w_wait, w_ret>>
  /\ UNCHANGED <<timeout, delivered, p_pc, p_response, p_ack, p_slept, p_iter>>
  /\ UNCHANGED ctlvars
  /\ UNCHANGED w_start
  /\ UNCHANGED <<lifevars, subvars, markvars>>

(***************************************************************************)
(* DDSSend.waitForCompletion and DDSSend.waitForInProgress.                *)
(***************************************************************************)
\* ack[0] != SAL__CMD_ACK and ack[0] != SAL__CMD_INPROGRESS   (waitForCompletion)
\* ack[0] != SAL__CMD_ACK                                     (waitForInProgress)
\* variant: both waits use the test of waitForCompletion
IsFinal_same(kind, code) == code # SAL__CMD_ACK /\ code # SAL__CMD_INPROGRESS

\* variant: both waits use the test of waitForInProgress
IsFinal_ackonly(kind, code) == code # SAL__CMD_ACK

\* the test that ends a wait, on the code of the last ack
IsFinal(kind, code) ==
  IF kind = "completion"
    THEN code # SAL__CMD_ACK /\ code # SAL__CMD_INPROGRESS
    ELSE code # SAL__CMD_ACK

\* variant: the sanity check does not look at the recorded acks
AlreadyFinal_never(kind, entry) == FALSE

\* elif len(self.cmd_responses[cmdid]['ack']) > 0 and (<last ack is final>):
AlreadyFinal(kind, entry) ==
  Len(entry.ack) > 0 /\ IsFinal(kind, Last(entry.ack)[1])

\* variant: the loop does not test the elapsed time
InTime_always(elapsed, tout) == TRUE

\* while time.time()-start_time < tout:
InTime(elapsed, tout) == elapsed < tout

\* a caller calls waitForCompletion(cmdid, timeout) or waitForInProgress(cmdid, timeout)
WaitCall(c, kind, id, t) ==
  /\ w_pc[c] = "idle"
  /\ w_kind' = [w_kind EXCEPT ![c] = kind]
  /\ w_cmdid' = [w_cmdid EXCEPT ![c] = id]
  /\ w_timeout' = [w_timeout EXCEPT ![c] = t]
  /\ w_pc' = [w_pc EXCEPT ![c] = "check"]
  /\ UNCHANGED <<w_tout, w_elapsed, w_waited, w_notified, w_got, w_wait, w_ret, w_start>>
  /\ UNCHANGED <<ctlvars, sendvars>>
  /\ UNCHANGED <<lifevars, subvars, markvars>>

\* the same call, with the number of acks recorded for cmdid at that moment
\* written down in w_start
WaitCallFrom(c, kind, id, t) ==
  /\ w_pc[c] = "idle"
  /\ w_kind' = [w_kind EXCEPT ![c] = kind]
  /\ w_cmdid' = [w_cmdid EXCEPT ![c] = id]
  /\ w_timeout' = [w_timeout EXCEPT ![c] = t]
  /\ w_pc' = [w_pc EXCEPT ![c] = "check"]
  /\ w_start' = [w_start EXCEPT ![c] =
                   IF id \in DOMAIN cmd_responses THEN Len(cmd_responses[id].ack) ELSE 0]
  /\ UNCHANGED <<w_tout, w_elapsed, w_waited, w_notified, w_got, w_wait, w_ret>>
  /\ UNCHANGED <<ctlvars, sendvars>>
  /\ UNCHANGED <<lifevars, subvars, markvars>>

\* the sanity check at the head of the function
WaitCheck(c) ==
  /\ w_pc[c] = "check"
  /\ IF w_cmdid[c] \notin DOMAIN cmd_responses
       THEN \* IOError(...) is built and dropped
            /\ w_pc' = [w_pc EXCEPT ![c] = "begin"]
            /\ w_ret' = w_ret
       ELSE IF AlreadyFinal(w_kind[c], cmd_responses[w_cmdid[c]])
         THEN /\ w_ret' = [w_ret EXCEPT ![c] =
                             <<w_cmdid[c], Last(cmd_responses[w_cmdid[c]].ack)>>]
              /\ w_pc' = [w_pc EXCEPT ![c] = "done"]
         ELSE /\ w_pc' = [w_pc EXCEPT ![c] = "begin"]
              /\ w_ret' = w_ret
  /\ UNCHANGED <<w_kind, w_cmdid, w_tout, w_elapsed, w_waited, w_notified,
                 w_got, w_timeout, w_wait>>
  /\ UNCHANGED <<ctlvars, sendvars>>
  /\ UNCHANGED w_start
  /\ UNCHANGED <<lifevars, subvars, markvars>>

\* tout = timeout if timeout is not None else self.timeout
\* self.log.debug(..., self.cmd_responses[cmdid]['cmd'], cmdid); start_time = time.time()
WaitBegin(c) ==
  /\ w_pc[c] = "begin"
  /\ IF w_cmdid[c] \notin DOMAIN cmd_responses
       THEN \* KeyError
            /\ w_pc' = [w_pc EXCEPT ![c] = "raised"]
            /\ UNCHANGED <<w_tout, w_elapsed>>
       ELSE /\ w_tout' = [w_tout EXCEPT ![c] =
                            IF w_timeout[c] # NoArg THEN w_timeout[c] ELSE timeout]
            /\ w_elapsed' = [w_elapsed EXCEPT ![c] = 0]
            /\ w_pc' = [w_pc EXCEPT ![c] = "loop"]
  /\ UNCHANGED <<w_kind, w_cmdid, w_waited, w_notified, w_got, w_timeout,
                 w_wait, w_ret>>
  /\ UNCHANGED <<ctlvars, sendvars>>
  /\ UNCHANGED w_start
  /\ UNCHANGED <<lifevars, subvars, markvars>>

\* the while test, then entering self.cmd_responses[cmdid]['event'].wait(tout);
\* after the loop: return -1, ()
WaitLoop(c) ==
  /\ w_pc[c] = "loop"
  /\ IF InTime(w_elapsed[c], w_tout[c])
       THEN IF cmd_responses[w_cmdid[c]].event
              THEN /\ w_got' = [w_got EXCEPT ![c] = TRUE]
                   /\ w_pc' = [w_pc EXCEPT ![c] = "clear"]
                   /\ UNCHANGED <<w_waited, w_notified, w_ret>>
              ELSE /\ w_pc' = [w_pc EXCEPT ![c] = "blocked"]
                   /\ w_waited' = [w_waited EXCEPT ![c] = 0]
                   /\ w_notified' = [w_notified EXCEPT ![c] = FALSE]
                   /\ UNCHANGED <<w_got, w_ret>>
       ELSE /\ w_ret' = [w_ret EXCEPT ![c] = <<-1, <<>>>>]
            /\ w_pc' = [w_pc EXCEPT ![c] = "done"]
            /\ UNCHANGED <<w_got, w_waited, w_notified>>
  /\ UNCHANGED <<w_kind, w_cmdid, w_tout, w_elapsed, w_timeout, w_wait>>
  /\ UNCHANGED <<ctlvars, sendvars>>
  /\ UNCHANGED w_start
  /\ UNCHANGED <<lifevars, subvars, markvars>>

\* event.wait(tout) returns True: the event was set while the caller was blocked
WaitWake(c) ==
  /\ w_pc[c] = "blocked"
  /\ w_notified[c]
  /\ w_got' = [w_got EXCEPT ![c] = TRUE]
  /\ w_notified' = [w_notified EXCEPT ![c] = FALSE]
  /\ w_pc' = [w_pc EXCEPT ![c] = "clear"]
  /\ UNCHANGED <<w_kind, w_cmdid, w_tout, w_elapsed, w_waited, w_timeout,
                 w_wait, w_ret>>
  /\ UNCHANGED <<ctlvars, sendvars>>
  /\ UNCHANGED w_start
  /\ UNCHANGED <<lifevars, subvars, markvars>>

\* event.wait(tout) returns False: tout went by and the event was not set
WaitExpire(c) ==
  /\ w_pc[c] = "blocked"
  /\ ~w_notified[c]
  /\ w_waited[c] >= w_tout[c]
  /\ w_got' = [w_got EXCEPT ![c] = FALSE]
  /\ w_pc' = [w_pc EXCEPT ![c] = "clear"]
  /\ UNCHANGED <<w_kind, w_cmdid, w_tout, w_elapsed, w_waited, w_notified,
                 w_timeout, w_wait, w_ret>>
  /\ UNCHANGED <<ctlvars, sendvars>>
  /\ UNCHANGED w_start
  /\ UNCHANGED <<lifevars, subvars, markvars>>

\* self.cmd_responses[cmdid]['event'].clear()
WaitClear(c) ==
  /\ w_pc[c] = "clear"
  /\ cmd_responses' = [cmd_responses EXCEPT ![w_cmdid[c]].event = FALSE]
  /\ w_pc' = [w_pc EXCEPT ![c] = "read"]
  /\ UNCHANGED <<w_kind, w_cmdid, w_tout, w_elapsed, w_waited, w_notified,
                 w_got, w_timeout, w_wait, w_ret>>
  /\ UNCHANGED <<timeout, delivered, p_pc, p_response, p_ack, p_slept, p_iter>>
  /\ UNCHANGED ctlvars
  /\ UNCHANGED w_start
  /\ UNCHANGED <<lifevars, subvars, markvars>>

\* if got_response: ack = self.cmd_responses[cmdid]['ack'][-1]; if <ack is final>: return cmdid, ack
WaitRead(c) ==
  /\ w_pc[c] = "read"
  /\ IF ~w_got[c]
       THEN /\ w_pc' = [w_pc EXCEPT ![c] = "loop"]
            /\ w_ret' = w_ret
       ELSE IF cmd_responses[w_cmdid[c]].ack = <<>>
         THEN \* IndexError
              /\ w_pc' = [w_pc EXCEPT ![c] = "raised"]
              /\ w_ret' = w_ret
         ELSE IF IsFinal(w_kind[c], Last(cmd_responses[w_cmdid[c]].ack)[1])
           THEN /\ w_ret' = [w_ret EXCEPT ![c] =
                               <<w_cmdid[c], Last(cmd_responses[w_cmdid[c]].ack)>>]
                /\ w_pc' = [w_pc EXCEPT ![c] = "done"]
           ELSE /\ w_pc' = [w_pc EXCEPT ![c] = "loop"]
                /\ w_ret' = w_ret
  /\ UNCHANGED <<w_kind, w_cmdid, w_tout, w_elapsed, w_waited, w_notified,
                 w_got, w_timeout, w_wait>>
  /\ UNCHANGED <<ctlvars, sendvars>>
  /\ UNCHANGED w_start
  /\ UNCHANGED <<lifevars, subvars, markvars>>

\* the call is over (it returned or raised), send_Command returns cmdid, retval
\* if it made the call, and the caller goes on
WaitReturn(c) ==
  /\ w_pc[c] \in {"done", "raised"}
  /\ w_pc' = [w_pc EXCEPT ![c] = "idle"]
  /\ w_ret' = [w_ret EXCEPT ![c] = NoReturn]
  /\ w_got' = [w_got EXCEPT ![c] = FALSE]
  /\ w_elapsed' = [w_elapsed EXCEPT ![c] = 0]
  /\ w_waited' = [w_waited EXCEPT ![c] = 0]
  /\ w_tout' = [w_tout EXCEPT ![c] = 0]
  /\ w_kind' = [w_kind EXCEPT ![c] = "completion"]
  /\ w_cmdid' = [w_cmdid EXCEPT ![c] = 0]
  /\ w_timeout' = [w_timeout EXCEPT ![c] = NoArg]
  /\ w_wait' = [w_wait EXCEPT ![c] = FALSE]
  /\ w_start' = [w_start EXCEPT ![c] = 0]
  /\ UNCHANGED w_notified
  /\ UNCHANGED <<ctlvars, sendvars>>
  /\ UNCHANGED <<lifevars, subvars, markvars>>

(***************************************************************************)
(* Time and the remote end of the transport.                               *)
(***************************************************************************)
\* the caller is between start_time = time.time() and its return
Timing(c) == w_pc[c] \in {"loop", "blocked", "clear", "read"}

\* one tick of the clock; the time a caller has spent in its call is counted up
\* to over ticks past its deadline, the other counters up to their deadline
TickTo(over) ==
  /\ w_elapsed' = [c \in Callers |->
                     IF Timing(c) THEN Min(w_elapsed[c] + 1, w_tout[c] + over)
                     ELSE w_elapsed[c]]
  /\ w_waited' = [c \in Callers |->
                    IF w_pc[c] = "blocked" THEN Min(w_waited[c] + 1, w_tout[c])
                    ELSE w_waited[c]]
  /\ p_slept' = IF p_pc = "sleep" THEN Min(p_slept + 1, SleepTime) ELSE p_slept
  /\ <<w_elapsed', w_waited', p_slept'>> # <<w_elapsed, w_waited, p_slept>>
  /\ UNCHANGED <<w_pc, w_kind, w_cmdid, w_tout, w_notified, w_got, w_timeout,
                 w_wait, w_ret>>
  /\ UNCHANGED <<timeout, cmd_responses, delivered, p_pc, p_response, p_ack, p_iter>>
  /\ UNCHANGED ctlvars
  /\ UNCHANGED w_start
  /\ UNCHANGED <<lifevars, subvars, markvars>>

\* one tick of the clock; every counter stops once its deadline is reached
Tick == TickTo(0)

\* every thread of the sender is asleep or blocked: the poller in time.sleep,
\* the callers outside a call or in event.wait
Quiet ==
  /\ p_pc = "failed" \/ (p_pc = "sleep" /\ p_slept < SleepTime)
  /\ \A c \in Callers :
       \/ w_pc[c] = "idle"
       \/ w_pc[c] = "blocked" /\ ~w_notified[c] /\ w_waited[c] < w_tout[c]

\* a tick of the clock when no thread is ready to run: the statements of the
\* threads take no time
TickQuiet == Quiet /\ TickTo(SleepTime + 1)

\* the ack codes a remote component answers with
RemoteCodes == {SAL__CMD_ACK, SAL__CMD_INPROGRESS, SAL__CMD_COMPLETE, SAL__CMD_NOACK}

RECURSIVE SumLen(_, _)
SumLen(f, S) ==
  IF S = {} THEN 0
  ELSE LET x == CHOOSE y \in S : TRUE IN Len(f[x]) + SumLen(f, S \ {x})

\* some component at the other end of the transport acks an issued command, with
\* the id it answers as the error field; the transport carries one ack at a time
RemoteAck(id, code) ==
  /\ id < nextId
  /\ SumLen(acks, Ids) < MaxAcks
  /\ \A i \in Ids : delivered[i] = Len(acks[i])
  /\ acks' = ackCommand(id, Ack(code, id, "remote"))
  /\ UNCHANGED <<nextId, cmd_topic, inbox, shutdown_flag, c_pc, cmdId,
                 reply_thread, newControl, t_pc, t_outcome>>
  /\ UNCHANGED <<sendvars, callvars>>
  /\ UNCHANGED <<lifevars, subvars, markvars>>

(***************************************************************************)
(* Lifecycle states (salpytools/states.py).                                *)
(***************************************************************************)
\* next_state: the state a command leads to, by the name state_enumeration knows
next_state ==
  [ENTER_CONTROL |-> "STANDBY", EXIT_CONTROL |-> "OFFLINE", START |-> "DISABLE",
   ENABLE |-> "ENABLE", DISABLE |-> "DISABLE", STANDBY |-> "STANDBY",
   SET_VALUE |-> "ENABLE", ABORT |-> "DISABLE", STOP |-> "DISABLE",
   ENTERCONTROL |-> "STANDBY", EXITCONTROL |-> "OFFLINE"]

\* state_enumeration: the index of a state name
state_enumeration ==
  [OFFLINE |-> 0, STANDBY |-> 1, DISABLE |-> 2, ENABLE |-> 3, FAULT |-> 4,
   INITIAL |-> 5, FINAL |-> 6]

\* variant: the matrix without the entry of STANDBY to OFFLINE
state_matrix_noexit ==
  [y \in 0..6 |-> [x \in 0..6 |->
     <<y, x>> \in {<<0, 6>>, <<0, 1>>, <<1, 6>>, <<1, 2>>, <<1, 4>>,
                   <<2, 1>>, <<2, 3>>, <<2, 4>>, <<3, 2>>, <<3, 4>>, <<5, 1>>,
                   <<0, 0>>, <<1, 1>>, <<2, 2>>, <<3, 3>>, <<4, 4>>, <<5, 5>>,
                   <<6, 6>>}]]

\* variant: the matrix without the entry of FINAL to itself
state_matrix_noself ==
  [y \in 0..6 |-> [x \in 0..6 |->
     <<y, x>> \in {<<0, 6>>, <<0, 1>>, <<1, 6>>, <<1, 0>>, <<1, 2>>, <<1, 4>>,
                   <<2, 1>>, <<2, 3>>, <<2, 4>>, <<3, 2>>, <<3, 4>>, <<5, 1>>,
                   <<0, 0>>, <<1, 1>>, <<2, 2>>, <<3, 3>>, <<4, 4>>, <<5, 5>>}]]

\* variant: the matrix with the entry of FAULT to STANDBY set as well
state_matrix_leavefault ==
  [y \in 0..6 |-> [x \in 0..6 |->
     <<y, x>> \in {<<0, 6>>, <<0, 1>>, <<1, 6>>, <<1, 0>>, <<1, 2>>, <<1, 4>>,
                   <<2, 1>>, <<2, 3>>, <<2, 4>>, <<3, 2>>, <<3, 4>>, <<5, 1>>,
                   <<0, 0>>, <<1, 1>>, <<2, 2>>, <<3, 3>>, <<4, 4>>, <<5, 5>>,
                   <<6, 6>>, <<4, 1>>}]]

\* state_matrix[y][x]: all False, then the entries the module sets to True
state_matrix ==
  [y \in 0..6 |-> [x \in 0..6 |->
     <<y, x>> \in {<<0, 6>>, <<0, 1>>, <<1, 6>>, <<1, 0>>, <<1, 2>>, <<1, 4>>,
                   <<2, 1>>, <<2, 3>>, <<2, 4>>, <<3, 2>>, <<3, 4>>, <<5, 1>>,
                   <<0, 0>>, <<1, 1>>, <<2, 2>>, <<3, 3>>, <<4, 4>>, <<5, 5>>,
                   <<6, 6>>}]]

\* self.name of the five state classes
HandlerNames == {"OFFLINE", "STANDBY", "DISABLED", "ENABLED", "FAULT"}

\* the methods of DefaultState that stand for commands
Methods == {"disable", "enable", "exit", "go_to_standby", "start", "enter_control"}

\* the methods a state class overrides, with the name it passes to change_state
Overrides ==
  {<<"OFFLINE", "enter_control", "STANDBY">>,
   <<"STANDBY", "exit", "OFFLINE">>,
   <<"STANDBY", "start", "DISABLED">>,
   <<"DISABLED", "enable", "ENABLED">>,
   <<"DISABLED", "go_to_standby", "STANDBY">>,
   <<"ENABLED", "disable", "DISABLED">>,
   <<"FAULT", "go_to_standby", "STANDBY">>}

\* variant: an overriding method asks for the state of its own class
Handler_stay(name, method) ==
  IF \E t \in HandlerNames : <<name, method, t>> \in Overrides
    THEN [call |-> "change_state", target |-> name]
    ELSE [call |-> "raise", target |-> ""]

\* variant: the methods of DefaultState return instead of raising
Handler_silent(name, method) ==
  IF \E t \in HandlerNames : <<name, method, t>> \in Overrides
    THEN [call |-> "change_state",
          target |-> CHOOSE t \in HandlerNames : <<name, method, t>> \in Overrides]
    ELSE [call |-> "return", target |-> ""]

\* what the method of the state class named name does: the override calls
\* self.model.change_state(target), the method of DefaultState raises
\* StateTransitionException()
Handler(name, method) ==
  IF \E t \in HandlerNames : <<name, method, t>> \in Overrides
    THEN [call |-> "change_state",
          target |-> CHOOSE t \in HandlerNames : <<name, method, t>> \in Overrides]
    ELSE [call |-> "raise", target |-> ""]

\* no SummaryState event was sent
NoSummary == [sent |-> FALSE, value |-> 0]

\* send_logEvent('SummaryState') of the state object named name:
\* self.myData[eventname].SummaryStateValue = state_enumeration[self.name]
\* raises KeyError for a name that is no key of the dictionary
send_logEvent(name) ==
  IF name \in DOMAIN state_enumeration
    THEN [raised |-> "", value |-> state_enumeration[name]]
    ELSE [raised |-> "KeyError", value |-> 0]

\* wake(): self.send_logEvent('SummaryState')
wake(name) == send_logEvent(name)

(***************************************************************************)
(* The context the state handlers and the controller call.                 *)
(***************************************************************************)
\* the lifecycle states
LifecycleStates ==
  {"OFFLINE", "STANDBY", "DISABLED", "ENABLED", "FAULT", "INITIAL", "FINAL"}

\* the index of a lifecycle state in the transition matrix
StateIndex(s) ==
  CASE s = "OFFLINE" -> 0 [] s = "STANDBY" -> 1 [] s = "DISABLED" -> 2
    [] s = "ENABLED" -> 3 [] s = "FAULT" -> 4 [] s = "INITIAL" -> 5
    [] s = "FINAL" -> 6

\* the handler object of a state: INITIAL resolves to the handler of STANDBY,
\* FINAL to the handler of ENABLED
StateHandler(s) ==
  IF s = "INITIAL" THEN "STANDBY" ELSE IF s = "FINAL" THEN "ENABLED" ELSE s

\* isAllowed(from, to): a lookup in the matrix, false for anything not marked
isAllowed(from, to) ==
  /\ from \in LifecycleStates
  /\ to \in LifecycleStates
  /\ state_matrix[StateIndex(from)][StateIndex(to)]

\* the commands of the lifecycle, upper-cased
LifeCommands == {"ENTERCONTROL", "START", "ENABLE", "DISABLE", "STANDBY", "EXITCONTROL"}

\* the handler method a command is dispatched to
MethodOf(command) ==
  CASE command = "ENTERCONTROL" -> "enter_control" [] command = "START" -> "start"
    [] command = "ENABLE" -> "enable" [] command = "DISABLE" -> "disable"
    [] command = "STANDBY" -> "go_to_standby" [] command = "EXITCONTROL" -> "exit"

\* no call was made on the context
NoCall ==
  [op |-> "none", from |-> "", arg |-> "", target |-> "", consulted |-> FALSE,
   allowed |-> FALSE, result |-> ""]

\* ChangeState(target) in state from: the matrix is consulted; a transition it
\* does not allow changes nothing and fails with StateTransitionException; an
\* allowed one swaps the state, and the state notification is emitted by
\* wake() of the handler of the new state
Changed(from, target) ==
  IF ~isAllowed(from, target)
    THEN [state |-> from, allowed |-> FALSE, result |-> "StateTransitionException",
          summary |-> summary]
    ELSE LET e == wake(StateHandler(target))
         IN  [state |-> target, allowed |-> TRUE,
              result |-> IF e.raised = "" THEN "DONE" ELSE e.raised,
              summary |-> IF e.raised = "" THEN [sent |-> TRUE, value |-> e.value]
                                           ELSE summary]

\* the device code calls change_state(target) on the context
change_state(target) ==
  /\ LET r == Changed(current_state, target)
     IN  /\ current_state' = r.state
         /\ summary' = r.summary
         /\ l_last' = [op |-> "change_state", from |-> current_state, arg |-> target,
                       target |-> target, consulted |-> TRUE, allowed |-> r.allowed,
                       result |-> r.result]
  /\ UNCHANGED <<ctlvars, sendvars, callvars, subvars, markvars>>

\* err, message = self.context.execute_command(self.COMMAND, self.myData):
\* the method of the handler of the current state that matches the command runs
execute_command(command) ==
  /\ LET h == Handler(StateHandler(current_state), MethodOf(command))
         r == Changed(current_state, h.target)
     IN  IF h.call = "change_state"
           THEN /\ current_state' = r.state
                /\ summary' = r.summary
                /\ l_last' = [op |-> "execute", from |-> current_state, arg |-> command,
                              target |-> h.target, consulted |-> TRUE,
                              allowed |-> r.allowed, result |-> r.result]
           ELSE /\ l_last' = [op |-> "execute", from |-> current_state, arg |-> command,
                              target |-> "", consulted |-> FALSE, allowed |-> FALSE,
                              result |-> IF h.call = "raise"
                                           THEN "StateTransitionException" ELSE "DONE"]
                /\ UNCHANGED <<current_state, summary>>
  /\ UNCHANGED <<ctlvars, sendvars, callvars, subvars, markvars>>

\* the context is constructed in any of the lifecycle states
InitLife ==
  /\ current_state \in LifecycleStates
  /\ l_origin = current_state
  /\ l_last = NoCall
  /\ summary = NoSummary

\* the context of a component that receives no lifecycle command
InitLifeIdle ==
  /\ current_state = "OFFLINE"
  /\ l_origin = current_state
  /\ l_last = NoCall
  /\ summary = NoSummary

(***************************************************************************)
(* DDSSubscriberThread.                                                    *)
(***************************************************************************)
\* bound: the number of pieces of a topic
MaxLen == 5

\* A topic is a string; it is modelled as the sequence of its pieces, a piece
\* being an underscore or a run of letters, and its text is the pieces put
\* together. The letters c and l occur in no piece but "command" and
\* "logevent", so the text holds the word "command" exactly when one of the
\* pieces is "command", and a token is the word "command" exactly when it is
\* that one piece; the same goes for "logevent".
Pieces == {"_", "command", "logevent", "tag", "x"}

Topics == UNION {[1..n -> Pieces] : n \in 0..MaxLen}

\* topic.split('_')
RECURSIVE split(_)
split(s) ==
  IF \A i \in 1..Len(s) : s[i] # "_"
    THEN <<s>>
    ELSE LET i == CHOOSE i \in 1..Len(s) : s[i] = "_" /\ \A j \in 1..(i - 1) : s[j] # "_"
         IN  <<SubSeq(s, 1, i - 1)>> \o split(SubSeq(s, i + 1, Len(s)))

\* "word" in self.topic
Contains(topic, word) == \E i \in 1..Len(topic) : topic[i] = word

\* raise ValueError(...)
ValueError == [raised |-> TRUE, value |-> <<>>]

\* variant: a topic of three tokens is taken whatever its middle token is
parse_for_subsystem_tag_anymiddle(topic) ==
  LET parsed_topic == split(topic)
  IN  IF Len(parsed_topic[1]) = 0 THEN ValueError
      ELSE IF Len(Last(parsed_topic)) = 0 THEN ValueError
      ELSE IF Len(parsed_topic) < 1 THEN ValueError
      ELSE IF Len(parsed_topic) > 3 THEN ValueError
      ELSE IF Len(parsed_topic) = 3 THEN [raised |-> FALSE, value |-> parsed_topic[1]]
      ELSE IF Len(parsed_topic) = 2 THEN [raised |-> FALSE, value |-> parsed_topic[1]]
      ELSE ValueError

\* parse_for_subsystem_tag(topic), test by test
parse_for_subsystem_tag(topic) ==
  LET parsed_topic == split(topic)
  IN  IF Len(parsed_topic[1]) = 0 THEN ValueError
      ELSE IF Len(Last(parsed_topic)) = 0 THEN ValueError
      ELSE IF Len(parsed_topic) < 1 THEN ValueError
      ELSE IF Len(parsed_topic) > 3 THEN ValueError
      ELSE IF Len(parsed_topic) = 3
        THEN IF parsed_topic[2] = <<"command">> \/ parsed_topic[2] = <<"logevent">>
               THEN [raised |-> FALSE, value |-> parsed_topic[1]]
               ELSE ValueError
      ELSE IF Len(parsed_topic) = 2 THEN [raised |-> FALSE, value |-> parsed_topic[1]]
      ELSE ValueError

\* DDSSubscriberThread(topic = topic, handle = handle): the constructor raises
\* what parse_for_subsystem_tag raises, and otherwise sets the three flags to False
Construct ==
  /\ s_pc = "new"
  /\ LET r == parse_for_subsystem_tag(s_topic)
     IN  /\ s_pc' = IF r.raised THEN "rejected" ELSE "constructed"
         /\ s_tag' = r.value
  /\ is_command' = FALSE
  /\ is_event' = FALSE
  /\ is_telemetry' = FALSE
  /\ UNCHANGED <<s_topic, s_sub>>
  /\ UNCHANGED <<ctlvars, sendvars, callvars, lifevars, markvars>>

\* mgr_subscribe_to_topic(): one flag is set by looking for the words in the
\* topic; a command raises ValueError, an event is subscribed with salEvent,
\* telemetry with salTelemetrySub
Subscribe ==
  /\ s_pc = "constructed"
  /\ is_command' = (is_command \/ Contains(s_topic, "command"))
  /\ is_event' = (is_event \/ (~Contains(s_topic, "command") /\ Contains(s_topic, "logevent")))
  /\ is_telemetry' =
       (is_telemetry \/ (~Contains(s_topic, "command") /\ ~Contains(s_topic, "logevent")))
  /\ s_pc' = IF is_command' THEN "refused" ELSE "subscribed"
  /\ s_sub' = IF is_command' THEN s_sub
              ELSE IF is_event' THEN "salEvent"
              ELSE IF is_telemetry' THEN "salTelemetrySub" ELSE s_sub
  /\ UNCHANGED <<s_topic, s_tag>>
  /\ UNCHANGED <<ctlvars, sendvars, callvars, lifevars, markvars>>

\* a thread is about to be constructed for a topic
InitSub ==
  /\ s_topic \in Topics
  /\ s_pc = "new"
  /\ s_tag = <<>>
  /\ is_command = FALSE
  /\ is_event = FALSE
  /\ is_telemetry = FALSE
  /\ s_sub = "none"

\* no DDSSubscriberThread is made
InitSubNone ==
  /\ s_topic = <<>>
  /\ s_pc = "none"
  /\ s_tag = <<>>
  /\ is_command = FALSE
  /\ is_event = FALSE
  /\ is_telemetry = FALSE
  /\ s_sub = "none"

(***************************************************************************)
(* Specification of the controller alone.                                  *)
(***************************************************************************)
InitSend ==
  /\ timeout = Timeout
  /\ cmd_responses = << >>
  /\ delivered = [id \in Ids |-> 0]
  /\ p_pc = "poll"
  /\ p_response = 0
  /\ p_ack = <<>>
  /\ p_slept = 0
  /\ p_iter = NoIter
  /\ p_intime = [id \in Ids |-> FALSE]
  /\ c_answered = [k \in Controllers |-> FALSE]

InitCall ==
  /\ w_pc = [c \in Callers |-> "idle"]
  /\ w_kind = [c \in Callers |-> "completion"]
  /\ w_cmdid = [c \in Callers |-> 0]
  /\ w_tout = [c \in Callers |-> 0]
  /\ w_elapsed = [c \in Callers |-> 0]
  /\ w_waited = [c \in Callers |-> 0]
  /\ w_notified = [c \in Callers |-> FALSE]
  /\ w_got = [c \in Callers |-> FALSE]
  /\ w_timeout = [c \in Callers |-> NoArg]
  /\ w_wait = [c \in Callers |-> FALSE]
  /\ w_ret = [c \in Callers |-> NoReturn]
  /\ w_start = [c \in Callers |-> 0]

InitCtl ==
  /\ nextId = 1
  /\ cmd_topic = [id \in Ids |-> "none"]
  /\ inbox = [k \in Controllers |-> <<>>]
  /\ acks = [id \in Ids |-> <<>>]
  /\ shutdown_flag = [k \in Controllers |-> FALSE]
  /\ c_pc = [k \in Controllers |-> "loop"]
  /\ cmdId = [k \in Controllers |-> 0]
  /\ reply_thread = [k \in Controllers |-> 0]
  /\ newControl = [k \in Controllers |-> FALSE]
  /\ t_pc = [id \in Ids |-> "none"]
  /\ t_outcome = [id \in Ids |-> NoOutcome]

CtlStep(k) ==
  \/ CtlLoop(k)
  \/ CtlAccept(k)
  \/ CtlAck(k)
  \/ CtlBusy(k)
  \/ CtlNoperm(k)
  \/ CtlStart(k)

ReplyStep(id) ==
  \/ ReplyInProgress(id)
  \/ ReplyExecute(id)
  \/ ReplyExit(id)

NextCtl ==
  \/ \E k \in Controllers : Issue(k)
  \/ \E k \in Controllers : Stop(k)
  \/ \E k \in Controllers : CtlStep(k)
  \/ \E id \in Ids : ReplyStep(id)

Init == InitCtl /\ InitSend /\ InitCall /\ InitLifeIdle /\ InitSubNone

SpecCtl == Init /\ [][NextCtl]_vars

\* the controllers, the polling thread noting at each command it accepts
\* whether the command before was answered
NextBusy ==
  \/ \E k \in Controllers : Issue(k)
  \/ \E k \in Controllers : Stop(k)
  \/ \E k \in Controllers : CtlLoop(k)
  \/ \E k \in Controllers : CtlAcceptAt(k)
  \/ \E k \in Controllers : CtlAck(k)
  \/ \E k \in Controllers : CtlBusy(k)
  \/ \E k \in Controllers : CtlNoperm(k)
  \/ \E k \in Controllers : CtlStart(k)
  \/ \E id \in Ids : ReplyStep(id)

SpecBusy == Init /\ [][NextBusy]_vars

(***************************************************************************)
(* The controller of salpytools/salpylib.py, which replies in its polling  *)
(* loop. It has no shutdown flag and starts no thread.                     *)
(***************************************************************************)
\* "An {} exception occurred when running {}.".format(exception.__class__.__name__, self.COMMAND)
SyncFailedMessage(exc, cmd) == <<"An", exc, "exception occurred when running", cmd>>

\* the outcome is an exception that 'except Exception' catches:
\* StateTransitionException is an Exception like the others
IsException(o) == o.kind # "return"

\* variant: a rejected state transition is answered with NOPERM
SyncTerminalAck_noperm(cmd, o) ==
  IF o.kind = "StateTransitionException"
    THEN Ack(SAL__CMD_NOPERM, 1, "State transition not allowed.")
  ELSE IF IsException(o)
    THEN Ack(SAL__CMD_FAILED, 1, SyncFailedMessage(o.kind, cmd))
  ELSE Ack(SAL__CMD_COMPLETE, o.err, o.message)

\* the ackCommand call of the try / except Exception / else block, by outcome
SyncTerminalAck(cmd, o) ==
  IF IsException(o)
    THEN Ack(SAL__CMD_FAILED, 1, SyncFailedMessage(o.kind, cmd))
    ELSE Ack(SAL__CMD_COMPLETE, o.err, o.message)

\* while True: cmdId = self.mgr_acceptCommand(self.myData); if cmdId > 0:
SyncAccept(k) ==
  /\ c_pc[k] = "loop"
  /\ IF inbox[k] # <<>>
       THEN /\ cmdId' = [cmdId EXCEPT ![k] = Head(inbox[k])]
            /\ inbox' = [inbox EXCEPT ![k] = Tail(@)]
            /\ c_pc' = [c_pc EXCEPT ![k] = "reply"]
       ELSE /\ cmdId' = [cmdId EXCEPT ![k] = 0]
            /\ inbox' = inbox
            /\ c_pc' = [c_pc EXCEPT ![k] = "sleep"]
  /\ UNCHANGED <<nextId, cmd_topic, acks, shutdown_flag, reply_thread,
                 newControl, t_pc, t_outcome>>
  /\ UNCHANGED <<sendvars, callvars>>
  /\ UNCHANGED <<lifevars, subvars, markvars>>

\* self.reply_to_transition(cmdId):
\* self.mgr_ackCommand(cmdid, SAL__CMD_INPROGRESS, 0, "Starting: OK")
SyncInProgress(k) ==
  /\ c_pc[k] = "reply"
  /\ acks' = ackCommand(cmdId[k], Ack(SAL__CMD_INPROGRESS, 0, "Starting: OK"))
  /\ c_pc' = [c_pc EXCEPT ![k] = "execute"]
  /\ UNCHANGED <<nextId, cmd_topic, inbox, shutdown_flag, cmdId, reply_thread,
                 newControl, t_pc, t_outcome>>
  /\ UNCHANGED <<sendvars, callvars>>
  /\ UNCHANGED <<lifevars, subvars, markvars>>

\* err, message = self.context.execute_command(self.COMMAND, self.myData) returns
\* or raises, and the ack of the except or of the else clause is sent
SyncExecute(k) ==
  /\ c_pc[k] = "execute"
  /\ \E o \in Outcomes :
       /\ t_outcome' = [t_outcome EXCEPT ![cmdId[k]] = o]
       /\ acks' = ackCommand(cmdId[k], SyncTerminalAck(COMMAND(k), o))
  /\ c_pc' = [c_pc EXCEPT ![k] = "control"]
  /\ UNCHANGED <<nextId, cmd_topic, inbox, shutdown_flag, cmdId, reply_thread,
                 newControl, t_pc>>
  /\ UNCHANGED <<sendvars, callvars>>
  /\ UNCHANGED <<lifevars, subvars, markvars>>

\* self.newControl = True
SyncControl(k) ==
  /\ c_pc[k] = "control"
  /\ newControl' = [newControl EXCEPT ![k] = TRUE]
  /\ c_pc' = [c_pc EXCEPT ![k] = "sleep"]
  /\ UNCHANGED <<nextId, cmd_topic, inbox, acks, shutdown_flag, cmdId,
                 reply_thread, t_pc, t_outcome>>
  /\ UNCHANGED <<sendvars, callvars>>
  /\ UNCHANGED <<lifevars, subvars, markvars>>

\* time.sleep(self.tsleep)
SyncSleep(k) ==
  /\ c_pc[k] = "sleep"
  /\ c_pc' = [c_pc EXCEPT ![k] = "loop"]
  /\ UNCHANGED <<nextId, cmd_topic, inbox, acks, shutdown_flag, cmdId,
                 reply_thread, newControl, t_pc, t_outcome>>
  /\ UNCHANGED <<sendvars, callvars>>
  /\ UNCHANGED <<lifevars, subvars, markvars>>

SyncStep(k) ==
  \/ SyncAccept(k)
  \/ SyncInProgress(k)
  \/ SyncExecute(k)
  \/ SyncControl(k)
  \/ SyncSleep(k)

NextSync ==
  \/ \E k \in Controllers : Issue(k)
  \/ \E k \in Controllers : SyncStep(k)

SpecSync == Init /\ [][NextSync]_vars

(***************************************************************************)
(* Specification of the sender alone, and of sender and controllers        *)
(* together.                                                               *)
(***************************************************************************)
PollStep ==
  \/ PollGet
  \/ PollStore
  \/ PollSet
  \/ PollClear
  \/ PollSweep

WaitStep(c) ==
  \/ WaitCheck(c)
  \/ WaitBegin(c)
  \/ WaitLoop(c)
  \/ WaitWake(c)
  \/ WaitExpire(c)
  \/ WaitClear(c)
  \/ WaitRead(c)
  \/ WaitReturn(c)

CallerStep(c) ==
  \/ \E k \in SendCmds, t \in TimeoutArgs \cup {NoArg}, wait \in BOOLEAN :
       SendCommand(c, k, t, wait)
  \/ SendRegister(c)
  \/ \E kind \in {"completion", "inprogress"}, id \in Ids :
       WaitCall(c, kind, id, NoArg)
  \/ WaitStep(c)

NextSend ==
  \/ \E c \in Callers : CallerStep(c)
  \/ PollStep
  \/ Tick
  \/ \E id \in Ids, code \in RemoteCodes : RemoteAck(id, code)

SpecSend == Init /\ [][NextSend]_vars

\* the sender whose callers send without waiting and then make wait calls, the
\* beginning of each wait call being written down
NextStale ==
  \/ \E c \in Callers, k \in SendCmds : SendCommand(c, k, NoArg, FALSE)
  \/ \E c \in Callers : SendRegister(c)
  \/ \E c \in Callers, kind \in {"completion", "inprogress"}, id \in Ids :
       WaitCallFrom(c, kind, id, NoArg)
  \/ \E c \in Callers : WaitStep(c)
  \/ PollStep
  \/ Tick
  \/ \E id \in Ids, code \in RemoteCodes : RemoteAck(id, code)

SpecStale == Init /\ [][NextStale]_vars

\* the sender, the poller noting for each ack it appends whether a
\* waitForCompletion call for the id was short of its deadline
NextRace ==
  \/ \E c \in Callers : CallerStep(c)
  \/ PollGet
  \/ PollStoreAt
  \/ PollSet
  \/ PollClear
  \/ PollSweep
  \/ Tick
  \/ \E id \in Ids, code \in RemoteCodes : RemoteAck(id, code)

SpecRace == Init /\ [][NextRace]_vars

\* timeouts of a constructor or a call, in ticks of 1/Unit second: 0.5, 1 and 1.5 s
FloatTimeouts == {1, 2, 3}

\* DDSSend(timeout = ...) with a timeout that may be a float
InitFloat ==
  /\ InitCtl /\ InitCall /\ InitLifeIdle /\ InitSubNone
  /\ timeout \in FloatTimeouts
  /\ cmd_responses = << >>
  /\ delivered = [id \in Ids |-> 0]
  /\ p_pc = "poll"
  /\ p_response = 0
  /\ p_ack = <<>>
  /\ p_slept = 0
  /\ p_iter = NoIter
  /\ p_intime = [id \in Ids |-> FALSE]
  /\ c_answered = [k \in Controllers |-> FALSE]

\* the callers of a sender whose timeouts are floats; no ack arrives, so no
\* wait is woken
NextFloat ==
  \/ \E c \in Callers, k \in SendCmds, t \in FloatTimeouts \cup {NoArg}, wait \in BOOLEAN :
       SendCommandInt(c, k, t, wait)
  \/ \E c \in Callers : SendRegister(c)
  \/ \E c \in Callers, kind \in {"completion", "inprogress"}, id \in Ids :
       WaitCall(c, kind, id, NoArg)
  \/ \E c \in Callers : WaitCheck(c)
  \/ \E c \in Callers : WaitBegin(c)
  \/ \E c \in Callers : WaitLoop(c)
  \/ \E c \in Callers : WaitExpire(c)
  \/ \E c \in Callers : WaitClear(c)
  \/ \E c \in Callers : WaitRead(c)
  \/ \E c \in Callers : WaitReturn(c)
  \/ Tick

SpecFloat == InitFloat /\ [][NextFloat]_vars

\* send_Command run to its end by a thread other than the callers, for which
\* issueCommand returns an id it has returned before: the entry of the id is
\* replaced by one with 'ack': [] and a new, cleared Event. A caller blocked in
\* wait() holds the Event that was replaced, which nobody sets any more; the
\* step is taken when no caller is blocked on the id.
SendCommandOther(k, id) ==
  /\ id < nextId
  /\ Len(inbox[k]) < MaxCmd
  /\ \A c \in Callers : ~(w_pc[c] = "blocked" /\ w_cmdid[c] = id)
  /\ inbox' = [inbox EXCEPT ![k] = Append(@, id)]
  /\ cmd_topic' = [cmd_topic EXCEPT ![id] = k]
  /\ cmd_responses' =
       [i \in DOMAIN cmd_responses \cup {id} |->
          IF i = id
            THEN [cmd |-> k, ack |-> <<>>, event |-> FALSE]
            ELSE cmd_responses[i]]
  /\ UNCHANGED <<timeout, delivered, p_pc, p_response, p_ack, p_slept, p_iter>>
  /\ UNCHANGED <<nextId, acks, shutdown_flag, c_pc, cmdId, reply_thread, newControl,
                 t_pc, t_outcome>>
  /\ UNCHANGED callvars
  /\ UNCHANGED <<lifevars, subvars, markvars>>

\* the sender used by its callers and by one more thread
NextShared ==
  \/ \E c \in Callers, k \in SendCmds : SendCommand(c, k, NoArg, FALSE)
  \/ \E c \in Callers : SendRegister(c)
  \/ \E k \in SendCmds, id \in Ids : SendCommandOther(k, id)
  \/ \E c \in Callers, kind \in {"completion", "inprogress"}, id \in Ids :
       WaitCall(c, kind, id, NoArg)
  \/ \E c \in Callers : WaitStep(c)
  \/ PollStep
  \/ Tick
  \/ \E id \in Ids, code \in RemoteCodes : RemoteAck(id, code)

SpecShared == Init /\ [][NextShared]_vars

\* the sender with a single command in flight: the first command is sent,
\* waited for (as often as the caller likes) and acked by the remote end
NextWait ==
  \/ \E c \in Callers, k \in SendCmds, t \in TimeoutArgs \cup {NoArg}, wait \in BOOLEAN :
       nextId = 1 /\ SendCommand(c, k, t, wait)
  \/ \E c \in Callers : SendRegister(c)
  \/ \E c \in Callers, kind \in {"completion", "inprogress"}, id \in Ids :
       WaitCall(c, kind, id, NoArg)
  \/ \E c \in Callers : WaitStep(c)
  \/ PollStep
  \/ Tick
  \/ \E id \in Ids, code \in RemoteCodes : RemoteAck(id, code)

SpecWait == Init /\ [][NextWait]_vars

\* time advances and a thread inside a wait call is scheduled; the poller,
\* the remote end and the callers' decisions to call are left free
FairSpecWait ==
  /\ SpecWait
  /\ WF_vars(Tick)
  /\ \A c \in Callers : WF_vars(WaitStep(c))

\* the sender when the transport hands out command ids again
NextReuse ==
  \/ \E c \in Callers, k \in SendCmds : SendCommand(c, k, NoArg, FALSE)
  \/ \E c \in Callers, k \in SendCmds, id \in Ids : SendCommandAgain(c, k, id)
  \/ \E c \in Callers : SendRegister(c)
  \/ PollStep
  \/ Tick
  \/ \E id \in Ids, code \in RemoteCodes : RemoteAck(id, code)

SpecReuse == Init /\ [][NextReuse]_vars

\* explicit timeout arguments of the timed wait calls, in ticks
DeadlineArgs == {3}

\* the ack codes that leave a command unfinished
PendingCodes == {SAL__CMD_ACK, SAL__CMD_INPROGRESS}

\* a single command that the remote end never finishes, waited for with an
\* explicit timeout; time passes only while every thread sleeps or is blocked
NextTime ==
  \/ \E c \in Callers, k \in SendCmds : nextId = 1 /\ SendCommand(c, k, NoArg, FALSE)
  \/ \E c \in Callers : SendRegister(c)
  \/ \E c \in Callers, id \in Ids, t \in DeadlineArgs : WaitCall(c, "completion", id, t)
  \/ \E c \in Callers : WaitStep(c)
  \/ PollStep
  \/ TickQuiet
  \/ \E id \in Ids, code \in PendingCodes : RemoteAck(id, code)

SpecTime == Init /\ [][NextTime]_vars

\* the controller of a sender's command has already accepted command 1 of
\* another component and is executing it
InitBusy ==
  /\ nextId = 2
  /\ cmd_topic = [id \in Ids |-> IF id = 1 THEN "enable" ELSE "none"]
  /\ inbox = [k \in Controllers |-> <<>>]
  /\ acks = [id \in Ids |->
               IF id = 1 THEN << Ack(SAL__CMD_ACK, 0, "Command received : OK"),
                                 Ack(SAL__CMD_INPROGRESS, 0, "Starting: OK") >>
               ELSE <<>>]
  /\ shutdown_flag = [k \in Controllers |-> FALSE]
  /\ c_pc = [k \in Controllers |-> "loop"]
  /\ cmdId = [k \in Controllers |-> IF k = "enable" THEN 1 ELSE 0]
  /\ reply_thread = [k \in Controllers |-> IF k = "enable" THEN 1 ELSE 0]
  /\ newControl = [k \in Controllers |-> k = "enable"]
  /\ t_pc = [id \in Ids |-> IF id = 1 THEN "executing" ELSE "none"]
  /\ t_outcome = [id \in Ids |-> NoOutcome]

\* sender and receiver joined by the transport: a DDSSend object sends its one
\* command ("the class instance cannot be re-used") and waits for its
\* completion, the controller of the command answers it
Next ==
  \/ \E c \in Callers, k \in SendCmds, wait \in BOOLEAN :
       DOMAIN cmd_responses = {} /\ SendCommand(c, k, NoArg, wait)
  \/ \E c \in Callers : SendRegister(c)
  \/ \E c \in Callers, id \in Ids : WaitCall(c, "completion", id, NoArg)
  \/ \E c \in Callers : WaitStep(c)
  \/ PollStep
  \/ Tick
  \/ \E k \in SendCmds : CtlStep(k)
  \/ \E id \in Ids : ReplyStep(id)

Spec ==
  /\ Init \/ (InitBusy /\ InitSend /\ InitCall /\ InitLifeIdle /\ InitSubNone)
  /\ [][Next]_vars

\* the scheduler runs every thread that can take a step; commands are issued
\* and stop() is called whenever the environment likes
FairSpecCtl ==
  /\ SpecCtl
  /\ \A k \in Controllers : WF_vars(CtlStep(k))
  /\ \A id \in Ids : WF_vars(ReplyStep(id))

\* a controller on its own: the commands of its topic, its stop(), its polling
\* thread and its reply threads, all scheduled fairly
Alone == {"enable"}

NextAlone ==
  \/ \E k \in Alone : Issue(k)
  \/ \E k \in Alone : Stop(k)
  \/ \E k \in Alone : CtlStep(k)
  \/ \E id \in Ids : ReplyStep(id)

FairSpecAlone ==
  /\ Init
  /\ [][NextAlone]_vars
  /\ \A k \in Alone : WF_vars(CtlStep(k))
  /\ \A id \in Ids : WF_vars(ReplyStep(id))

\* the lifecycle alone: commands are executed on the context and the device
\* code changes the state
NextLife ==
  \/ \E command \in LifeCommands : execute_command(command)
  \/ \E target \in LifecycleStates : change_state(target)

\* nothing but the context is at work
InitContext == InitCtl /\ InitSend /\ InitCall /\ InitLife /\ InitSubNone

SpecLife == InitContext /\ [][NextLife]_vars

\* the states a device is operated in
Operational == {"OFFLINE", "STANDBY", "DISABLED", "ENABLED"}

\* the context is constructed in an operational state
InitOperational ==
  /\ InitCtl /\ InitSend /\ InitCall /\ InitSubNone
  /\ current_state \in Operational
  /\ l_origin = current_state
  /\ l_last = NoCall
  /\ summary = NoSummary

\* the state changes by commands only
NextCommands == \E command \in LifeCommands : execute_command(command)

SpecCommands == InitOperational /\ [][NextCommands]_vars

\* a subscriber thread alone: it is constructed, then told to subscribe
NextSub ==
  \/ Construct
  \/ Subscribe

\* nothing but the subscriber thread is at work
InitThread == InitCtl /\ InitSend /\ InitCall /\ InitLifeIdle /\ InitSub

SpecSub == InitThread /\ [][NextSub]_vars

(***************************************************************************)
(* Properties of the command receiver.                                     *)
(***************************************************************************)
Codes(s) == [i \in 1..Len(s) |-> s[i][1]]

TerminalCodes == {SAL__CMD_COMPLETE, SAL__CMD_NOPERM, SAL__CMD_FAILED}

HasTerminal(id) == \E i \in 1..Len(acks[id]) : acks[id][i][1] \in TerminalCodes

\* the controller has taken the command from the transport
Accepted(id) ==
  /\ cmd_topic[id] # "none"
  /\ \A i \in 1..Len(inbox[cmd_topic[id]]) : inbox[cmd_topic[id]][i] # id

\* the execution task of id has finished reply_to_transition
Finished(id) == t_pc[id] \in {"exit", "dead"}

\* the busy test found the previous reply thread alive when id arrived
BusyRejected(id) ==
  \/ \E k \in Controllers : c_pc[k] = "noperm" /\ cmdId[k] = id
  \/ \E i \in 1..Len(acks[id]) :
       acks[id][i] = <<SAL__CMD_NOPERM, -1, "Still replying to a previous command!">>

\* C3: the non-terminal ACK ('Command received : OK') is the first ack sent on
\* every accepted command id: no INPROGRESS, COMPLETE, NOPERM or FAILED ack
\* precedes it, and no reply thread exists for an id that has no ACK yet.
C3_AckFirst ==
  \A id \in Ids :
    /\ acks[id] # <<>> => acks[id][1] = <<SAL__CMD_ACK, 0, "Command received : OK">>
    /\ t_pc[id] # "none" => acks[id] # <<>>
    /\ \A k \in Controllers :
         (cmdId[k] = id /\ c_pc[k] \in {"busy", "noperm", "start"}) => acks[id] # <<>>

\* an execution task has sent its INPROGRESS after the ACK of the polling thread
C3_Witness ==
  \E id \in Ids : Len(acks[id]) >= 2 /\ acks[id][2][1] = SAL__CMD_INPROGRESS

\* the reply threads of controller k that are alive
AliveThreads(k) == {id \in Ids : cmd_topic[id] = k /\ t_pc[id] \notin {"none", "dead"}}

\* C4: at most one execution task (reply thread) is alive per controller.
C4_OneReplyThread ==
  \A k \in Controllers : Cardinality(AliveThreads(k)) <= 1

\* a command reaches the busy test while the previous reply thread is alive
C4_Witness ==
  \E k \in Controllers :
    /\ c_pc[k] = "busy"
    /\ AliveThreads(k) # {}
    /\ cmdId[k] \notin AliveThreads(k)

\* the terminal ack code the outcome of execute_command calls for
ExpectedCode(o) ==
  CASE o.kind = "return" -> SAL__CMD_COMPLETE
    [] o.kind = "StateTransitionException" -> SAL__CMD_NOPERM
    [] OTHER -> SAL__CMD_FAILED

C6_ContextMutex ==
  Cardinality({id \in Ids : t_pc[id] = "executing"}) <= 1

C9_TerminalIsLast ==
  \A id \in Ids :
    /\ \A i \in 1..Len(acks[id]) : acks[id][i][1] \in TerminalCodes => i = Len(acks[id])
    /\ \/ Codes(acks[id]) \in {<<>>, <<SAL__CMD_ACK>>, <<SAL__CMD_ACK, SAL__CMD_NOPERM>>,
                                <<SAL__CMD_ACK, SAL__CMD_INPROGRESS>>}
       \/ /\ Len(acks[id]) = 3
          /\ Codes(acks[id])[1] = SAL__CMD_ACK
          /\ Codes(acks[id])[2] = SAL__CMD_INPROGRESS
          /\ Codes(acks[id])[3] \in TerminalCodes
    /\ (Finished(id) \/ (BusyRejected(id) /\ \A k \in Controllers : cmdId[k] # id \/ c_pc[k] # "noperm"))
         => HasTerminal(id)

\* the reply thread of a command is gone and the polling loop has moved on to
\* a later command of the same controller
C9_Witness ==
  \E id, n \in Ids :
    /\ n # id
    /\ t_pc[id] = "dead"
    /\ cmd_topic[n] = cmd_topic[id]
    /\ t_pc[n] = "dead"

\* C21: once stop() has been called on a controller, its polling loop finishes
\* the iteration it is in and exits: it begins no further iteration, accepts
\* nothing after that and stays stopped; a reply thread that is running is not
\* interrupted and still sends its terminal ack.
C21_StopExitsLoop ==
  /\ [][\A k \in Controllers :
          /\ (shutdown_flag[k] /\ c_pc[k] = "loop" /\ c_pc'[k] # "loop") => c_pc'[k] = "stopped"
          /\ c_pc[k] = "stopped" =>
               (c_pc'[k] = "stopped" /\ cmdId'[k] = cmdId[k] /\ reply_thread'[k] = reply_thread[k])
          /\ shutdown_flag[k] => shutdown_flag'[k]]_vars
  /\ \A k \in Controllers : shutdown_flag[k] ~> (c_pc[k] = "stopped")
  /\ \A id \in Ids :
       (t_pc[id] \in {"inprogress", "executing"} /\ shutdown_flag[cmd_topic[id]])
         ~> (HasTerminal(id) /\ Finished(id))

\* the polling loop has exited with a command left on the transport while the
\* reply thread of an earlier command is still executing
C21_Witness ==
  \E k \in Controllers, id \in Ids :
    /\ c_pc[k] = "stopped"
    /\ inbox[k] # <<>>
    /\ cmd_topic[id] = k
    /\ t_pc[id] = "executing"

OnlyPending(id) == \A i \in 1..Len(acks[id]) : acks[id][i][1] \in PendingCodes

\* return cmdid, retval of send_Command(..., wait_command=True)
SendReturn(c) == <<w_cmdid[c], w_ret[c]>>

\* C11: a waitForCompletion call on a registered id for which only ACK and
\* INPROGRESS acks are ever sent ends, raises nothing and returns the sentinel
\* (-1, ()), and not before its deadline has gone by; when send_Command made
\* the call (wait_command=True) it returns (cmdid, (-1, ())).
C11_TimeoutSentinel ==
  /\ \A c \in Callers :
       (w_pc[c] = "check" /\ w_kind[c] = "completion" /\ w_cmdid[c] \in DOMAIN cmd_responses)
         ~> (w_pc[c] = "done" /\ (w_ret[c] = <<-1, <<>>>> \/ ~OnlyPending(w_cmdid[c])))
  /\ [](\A c \in Callers :
          /\ (w_pc[c] = "done" /\ w_kind[c] = "completion" /\ OnlyPending(w_cmdid[c]))
               => /\ w_ret[c] = <<-1, <<>>>>
                  /\ w_elapsed[c] >= w_tout[c]
                  /\ w_wait[c] => SendReturn(c) = <<w_cmdid[c], <<-1, <<>>>>>>
          /\ (w_pc[c] = "raised" => w_cmdid[c] \notin DOMAIN cmd_responses))

\* the wait inside send_Command has run into its deadline with an INPROGRESS
\* ack recorded for the command
C11_Witness ==
  \E c \in Callers :
    /\ w_pc[c] = "done"
    /\ w_wait[c]
    /\ SendReturn(c) = <<w_cmdid[c], <<-1, <<>>>>>>
    /\ OnlyPending(w_cmdid[c])
    /\ cmd_responses[w_cmdid[c]].ack # <<>>
    /\ Last(cmd_responses[w_cmdid[c]].ack)[1] = SAL__CMD_INPROGRESS

\* C12: a waitForCompletion call with timeout T on an id that gets only ACK and
\* INPROGRESS acks returns no later than T plus one poller interval (sleeptime)
\* after it started.
C12_DeadlineBound ==
  \A c \in Callers :
    (w_pc[c] = "done" /\ w_kind[c] = "completion")
      => w_elapsed[c] <= w_tout[c] + SleepTime

\* C13: acks are never delivered across command ids: the poller appends an ack
\* it observed for id A to A's history only and raises A's signal only, a
\* waiter blocked on another id is not woken by it, and a wait call returns
\* only an ack that was sent for the id it was called with.
C13_NoCrossDelivery ==
  /\ [][/\ \A id \in DOMAIN cmd_responses :
            /\ cmd_responses'[id].ack # cmd_responses[id].ack
                 => /\ p_pc = "store" /\ p_response = id
                    /\ \A o \in DOMAIN cmd_responses \ {id} :
                         cmd_responses'[o] = cmd_responses[o]
            /\ (~cmd_responses[id].event /\ cmd_responses'[id].event)
                 => (p_pc = "set" /\ p_response = id)
         /\ \A c \in Callers :
              (w_pc[c] = "blocked" /\ ~w_notified[c] /\ w_notified'[c])
                => (p_pc = "set" /\ p_response = w_cmdid[c])]_vars
  /\ [](/\ p_pc \in {"store", "set"} => p_ack[2] = p_response
        /\ \A id \in DOMAIN cmd_responses : \A i \in 1..Len(cmd_responses[id].ack) :
             cmd_responses[id].ack[i][2] = id
        /\ \A c \in Callers :
             (w_pc[c] = "done" /\ w_ret[c] # <<-1, <<>>>>)
               => (w_ret[c][1] = w_cmdid[c] /\ w_ret[c][2][2] = w_cmdid[c]))

\* the poller has recorded and signalled an ack of one command while a caller
\* stays blocked on another command, which has no ack yet
C13_Witness ==
  \E c \in Callers, a \in DOMAIN cmd_responses :
    /\ w_pc[c] = "blocked"
    /\ ~w_notified[c]
    /\ w_cmdid[c] # a
    /\ cmd_responses[w_cmdid[c]].ack = <<>>
    /\ cmd_responses[a].ack # <<>>
    /\ cmd_responses[a].event

\* the codes that end a command for the sender (every code but NOACK, ACK, INPROGRESS)
IsTerminal(code) == code \notin {SAL__CMD_NOACK, SAL__CMD_ACK, SAL__CMD_INPROGRESS}

\* C14: waitForCompletion takes a last ack for final, and returns it, exactly
\* when its code is none of NOACK, ACK, INPROGRESS; a NOACK ack is never the
\* returned answer.
C14_TerminalityTest ==
  /\ \A c \in Callers :
       (w_pc[c] = "done" /\ w_kind[c] = "completion" /\ w_ret[c] # <<-1, <<>>>>)
         => IsTerminal(w_ret[c][2][1])
  /\ \A c \in Callers :
       (w_pc[c] = "check" /\ w_kind[c] = "completion" /\ w_cmdid[c] \in DOMAIN cmd_responses
          /\ cmd_responses[w_cmdid[c]].ack # <<>>)
         => (AlreadyFinal(w_kind[c], cmd_responses[w_cmdid[c]])
               <=> IsTerminal(Last(cmd_responses[w_cmdid[c]].ack)[1]))

\* the acks recorded for the id of the call of c
History(c) == cmd_responses[w_cmdid[c]].ack

C16_UnknownIdReported ==
  \A c \in Callers : w_cmdid[c] \notin DOMAIN cmd_responses => w_pc[c] # "raised"

\* C17: the poller thread never fails or stops, however the insertion of
\* send_Command into cmd_responses falls between its steps.
C17_PollerSurvives == p_pc # "failed"

\* C18: an ack the poller retrieved for an id that is not registered is dropped:
\* the poller's step on it creates no entry, appends to no history and raises
\* no signal, and the poller goes to sleep.
C18_UnknownAckDropped ==
  [][(p_pc = "store" /\ p_pc' # "store" /\ p_response \notin DOMAIN cmd_responses)
       => /\ cmd_responses' = cmd_responses
          /\ w_notified' = w_notified
          /\ p_pc' = "sleep"
          /\ p_response' = 0]_vars

\* the poller has taken an ack of an unregistered id from the transport and
\* has finished with it
C18_Witness ==
  /\ p_pc = "sleep"
  /\ DOMAIN cmd_responses # {}
  /\ \E id \in Ids : id \notin DOMAIN cmd_responses /\ delivered[id] > 0

\* C19: the registration made by send_Command leaves an entry with the command
\* name, an empty ack history and a cleared signal under the id, whether or
\* not the id was registered before (the acks recorded for it before are gone),
\* and leaves the entry of every other id as it was.
C19_RegisterOverwrites ==
  [][\A c \in Callers :
       (w_pc[c] = "register" /\ w_pc'[c] # "register") =>
         /\ DOMAIN cmd_responses' = DOMAIN cmd_responses \cup {w_cmdid[c]}
         /\ cmd_responses'[w_cmdid[c]] =
              [cmd |-> cmd_topic[w_cmdid[c]], ack |-> <<>>, event |-> FALSE]
         /\ \A o \in DOMAIN cmd_responses \ {w_cmdid[c]} :
              cmd_responses'[o] = cmd_responses[o]]_vars

\* an id was registered again after the poller had appended an ack to its
\* entry and before the poller raised the signal: the history is empty again
C19_Witness ==
  /\ p_pc = "set"
  /\ p_response \in DOMAIN cmd_responses
  /\ cmd_responses[p_response].ack = <<>>

\* C20: the ack history of a registered id only grows at its end, in the order
\* of delivery: it is a prefix of the acks the transport has delivered for
\* the id, and its last element is the ack delivered last.
C20_HistoryIsPrefix ==
  \A id \in DOMAIN cmd_responses :
    /\ Len(cmd_responses[id].ack) <= delivered[id]
    /\ \A i \in 1..Len(cmd_responses[id].ack) : cmd_responses[id].ack[i] = acks[id][i]

\* C10: when the most recent ack recorded for a registered id is terminal at the
\* time waitForCompletion is called, the call returns (cmdid, that ack) at once:
\* it does not wait on the signal, and it leaves the registry (ack history and
\* signal) as it was, so that repeating the call gives the same tuple.
C10_AlreadyComplete ==
  [][\A c \in Callers :
       ( /\ w_pc[c] = "check"
         /\ w_pc'[c] # "check"
         /\ w_kind[c] = "completion"
         /\ w_cmdid[c] \in DOMAIN cmd_responses
         /\ cmd_responses[w_cmdid[c]].ack # <<>>
         /\ IsTerminal(Last(cmd_responses[w_cmdid[c]].ack)[1]) )
       => /\ w_pc'[c] = "done"
          /\ w_ret'[c] = <<w_cmdid[c], Last(cmd_responses[w_cmdid[c]].ack)>>
          /\ cmd_responses' = cmd_responses]_vars

\* a waitForCompletion call has returned a terminal ack from its sanity check,
\* before computing tout
C10_Witness ==
  \E c \in Callers :
    /\ w_pc[c] = "done"
    /\ w_kind[c] = "completion"
    /\ w_tout[c] = 0
    /\ w_ret[c][1] = w_cmdid[c]
    /\ IsTerminal(w_ret[c][2][1])
    /\ w_ret[c][2] = Last(cmd_responses[w_cmdid[c]].ack)

(***************************************************************************)
(* Properties of sender and receiver together.                             *)
(***************************************************************************)
\* C1: a COMPLETE ack is sent on a command id only when execute_command returned
\* normally for it; a command whose handler raised gets no terminal ack other
\* than NOPERM or FAILED, and no wait call of the issuer returns a COMPLETE ack
\* tuple for a command that did not execute successfully.
C1_NoFalseSuccess ==
  /\ \A id \in Ids : \A i \in 1..Len(acks[id]) :
       /\ acks[id][i][1] = SAL__CMD_COMPLETE => t_outcome[id].kind = "return"
       /\ (t_outcome[id].kind \notin {"none", "return"} /\ IsTerminal(acks[id][i][1]))
            => acks[id][i][1] \in {SAL__CMD_NOPERM, SAL__CMD_FAILED}
  /\ \A id \in DOMAIN cmd_responses : \A i \in 1..Len(cmd_responses[id].ack) :
       cmd_responses[id].ack[i][1] = SAL__CMD_COMPLETE => t_outcome[id].kind = "return"
  /\ \A c \in Callers :
       (w_pc[c] = "done" /\ w_ret[c] # <<-1, <<>>>> /\ w_ret[c][2][1] = SAL__CMD_COMPLETE)
         => t_outcome[w_ret[c][1]].kind = "return"

\* waitForCompletion has returned the terminal ack of a command whose handler raised
C1_Witness ==
  \E c \in Callers :
    /\ w_pc[c] = "done"
    /\ w_kind[c] = "completion"
    /\ w_ret[c] # <<-1, <<>>>>
    /\ t_outcome[w_ret[c][1]].kind \in {"StateTransitionException", "ValueError"}
    /\ w_ret[c][2][1] \in {SAL__CMD_NOPERM, SAL__CMD_FAILED}

(***************************************************************************)
(* Lifecycle claims (SpecLife).                                            *)
(***************************************************************************)
\* the index the matrix is read at for the state a command leads to
TargetIndex(command) == state_enumeration[next_state[command]]

\* C22: a command executed in a state from which the matrix does not allow the
\* state the command leads to is rejected with StateTransitionException and
\* leaves the state as it was; this holds for go_to_standby in FAULT too
C22_DisallowedRejected ==
  (/\ l_last.op = "execute"
   /\ ~state_matrix[StateIndex(l_last.from)][TargetIndex(l_last.arg)])
    => (l_last.result = "StateTransitionException" /\ current_state = l_last.from)

C22_Witness ==
  /\ l_last.op = "execute" /\ l_last.from = "FAULT" /\ l_last.arg = "STANDBY"
  /\ l_last.result = "StateTransitionException" /\ current_state = "FAULT"

\* the state class behind state s overrides the method of the command
Overridden(s, command) ==
  \E t \in HandlerNames : <<StateHandler(s), MethodOf(command), t>> \in Overrides

\* C23: a command whose method the handler class of the current state does not
\* override is rejected with StateTransitionException and the state stays
C23_NoHandlerRejected ==
  (l_last.op = "execute" /\ ~Overridden(l_last.from, l_last.arg))
    => (l_last.result = "StateTransitionException" /\ current_state = l_last.from)

C23_Witness ==
  /\ l_last.op = "execute" /\ l_last.from = "ENABLED" /\ l_last.arg = "ENTERCONTROL"
  /\ l_last.result = "StateTransitionException" /\ current_state = "ENABLED"

\* C24: a command the handler accepts and whose target the matrix allows moves
\* the device to that target and returns (0, 'DONE')
C24_AcceptedMoves ==
  (l_last.op = "execute" /\ l_last.consulted /\ l_last.allowed)
    => (current_state = l_last.target /\ l_last.result = "DONE")

\* C25: the matrix allows the transition of each of the seven states to itself
C25_SelfTransitions ==
  /\ \A name \in DOMAIN state_enumeration :
       state_matrix[state_enumeration[name]][state_enumeration[name]]
  /\ (l_last.op = "change_state" /\ l_last.from = l_last.arg) => l_last.allowed

C25_Witness ==
  /\ l_last.op = "change_state" /\ l_last.from = "FINAL" /\ l_last.arg = "FINAL"
  /\ l_last.allowed /\ current_state = "FINAL"

\* C26: FAULT is allowed from DISABLED and from ENABLED; out of FAULT the only
\* other state allowed is STANDBY, and that transition is allowed and made
C26_FaultNotDeadEnd ==
  /\ (l_last.consulted /\ l_last.from \in {"DISABLED", "ENABLED"} /\ l_last.target = "FAULT")
       => l_last.allowed
  /\ (l_last.consulted /\ l_last.from = "FAULT" /\ l_last.target \notin {"FAULT", "STANDBY"})
       => ~l_last.allowed
  /\ (l_last.consulted /\ l_last.from = "FAULT" /\ l_last.target = "STANDBY")
       => (l_last.allowed /\ current_state = "STANDBY")

\* C27: the index lookup made when a state emits SummaryState succeeds for
\* every state the handlers name, and the index sent is that of the state
C27_IndexOfEveryState ==
  /\ l_last.result # "KeyError"
  /\ (l_last.consulted /\ l_last.allowed /\ l_last.target \in HandlerNames)
       => summary = [sent |-> TRUE, value |-> StateIndex(l_last.target)]

(***************************************************************************)
(* Subscriber claims (SpecSub).                                            *)
(***************************************************************************)
\* the places of the underscores of a topic
Underscores(topic) == {i \in 1..Len(topic) : topic[i] = "_"}

\* the form of a topic by the rules of the docstrings: tag_command_name,
\* tag_logevent_name, tag_name, or none of them
Form(topic) ==
  LET U == Underscores(topic)
      a == CHOOSE i \in U : \A j \in U : i <= j
      b == CHOOSE i \in U : \A j \in U : j <= i
  IN  IF U = {} \/ Cardinality(U) > 2 THEN "none"
      ELSE IF a = 1 \/ b = Len(topic) THEN "none"
      ELSE IF Cardinality(U) = 1 THEN "telemetry"
      ELSE IF SubSeq(topic, a + 1, b - 1) = <<"command">> THEN "command"
      ELSE IF SubSeq(topic, a + 1, b - 1) = <<"logevent">> THEN "event"
      ELSE "none"

\* the text before the first underscore
FirstToken(topic) ==
  SubSeq(topic, 1, (CHOOSE i \in Underscores(topic) : \A j \in Underscores(topic) : i <= j) - 1)

\* C28: parse_for_subsystem_tag returns the first token for a topic of the form
\* tag_name, tag_command_name or tag_logevent_name and raises ValueError for
\* every other topic
C28_TagOrValueError ==
  s_pc \in {"constructed", "rejected", "subscribed", "refused"}
    => IF Form(s_topic) = "none"
         THEN s_pc = "rejected"
         ELSE s_pc # "rejected" /\ s_tag = FirstToken(s_topic)

C28_Witness ==
  /\ s_pc = "constructed"
  /\ s_topic = <<"tag", "_", "command", "_", "x">>
  /\ s_tag = <<"tag">>

\* C29: after mgr_subscribe_to_topic exactly one flag is true, is_event only
\* for a logevent topic, is_telemetry only for a telemetry topic, and a command
\* topic makes the call raise ValueError with nothing subscribed
C29_FlagsByForm ==
  s_pc \in {"subscribed", "refused"}
    => /\ Cardinality({f \in {"c", "e", "t"} :
                         \/ f = "c" /\ is_command
                         \/ f = "e" /\ is_event
                         \/ f = "t" /\ is_telemetry}) = 1
       /\ is_event => Form(s_topic) = "event"
       /\ is_telemetry => Form(s_topic) = "telemetry"
       /\ Form(s_topic) = "command" => (s_pc = "refused" /\ s_sub = "none")

\* C30: a wait call is not woken by a signal raised for an ack that was
\* delivered before the call began: when the signal wait returns true, an ack
\* has been recorded for the id since the beginning of the call
C30_NoStaleWake ==
  \A c \in Callers :
    (w_pc[c] \in {"clear", "read"} /\ w_got[c]) => Len(History(c)) > w_start[c]

\* the table in the comment above state_matrix: the next states marked TRUE
\* in the row of each state, by the keys of state_enumeration
DocumentedTable ==
  [OFFLINE |-> {"OFFLINE", "STANDBY", "FINAL"},
   STANDBY |-> {"OFFLINE", "STANDBY", "DISABLE", "FAULT", "FINAL"},
   DISABLE |-> {"STANDBY", "DISABLE", "ENABLE", "FAULT"},
   ENABLE |-> {"DISABLE", "ENABLE", "FAULT"},
   FAULT |-> {"FAULT"},
   INITIAL |-> {"STANDBY", "INITIAL"},
   FINAL |-> {"FINAL"}]

\* the key of state_enumeration that has the index of lifecycle state s
KeyOf(s) ==
  CHOOSE name \in DOMAIN state_enumeration : state_enumeration[name] = StateIndex(s)

\* C31: the transitions state_matrix marks true are exactly those of the
\* documented table, every other pair is false
C31_MatrixIsTable ==
  /\ \A from \in DOMAIN state_enumeration, to \in DOMAIN state_enumeration :
       state_matrix[state_enumeration[from]][state_enumeration[to]]
         <=> to \in DocumentedTable[from]
  /\ l_last.op = "change_state"
       => (l_last.allowed <=> KeyOf(l_last.arg) \in DocumentedTable[KeyOf(l_last.from)])

C31_Witness ==
  /\ l_last.op = "change_state" /\ l_last.from = "FAULT" /\ l_last.arg = "STANDBY"
  /\ ~l_last.allowed /\ current_state = "FAULT"

\* C32: no lost wake-up: waitForCompletion does not return the sentinel
\* (-1, ()) when the last ack recorded for the id is terminal and was appended
\* before the deadline of the call
C32_NoLostWakeup ==
  \A c \in Callers :
    (w_pc[c] = "done" /\ w_kind[c] = "completion" /\ w_ret[c] = <<-1, <<>>>>)
      => ~p_intime[w_cmdid[c]]

\* the number of acks recorded for an id
Recorded(id) == IF id \in DOMAIN cmd_responses THEN Len(cmd_responses[id].ack) ELSE 0

\* C33: no ack of a command issued through send_Command is dropped by the
\* sender: every ack the poller has retrieved for an issued id is in the history
\* of the id, or in the poller's hands on its way there; this includes an ack
\* retrieved between issueCommand returning the id and the id being registered
C33_NoAckDropped ==
  \A id \in Ids :
    id < nextId =>
      delivered[id] = Recorded(id) + (IF p_pc = "store" /\ p_response = id THEN 1 ELSE 0)

\* C34: whenever the signal wait of waitForCompletion or waitForInProgress
\* returned true, the ack history the call then reads is not empty, and the
\* call does not fail reading the last ack, also when another send_Command
\* registers the same id again with an empty history
C34_WokenReadsAck ==
  \A c \in Callers :
    /\ (w_pc[c] = "read" /\ w_got[c]) => History(c) # <<>>
    /\ (w_pc[c] = "raised" /\ w_cmdid[c] \in DOMAIN cmd_responses) => ~w_got[c]

\* C35: a command is rejected as busy only while the command before is
\* unanswered: a command accepted after the terminal ack of the previous command
\* of the controller was sent is not answered with NOPERM 'Still replying to a
\* previous command!'
C35_BusyOnlyUnanswered ==
  \A k \in Controllers :
    c_answered[k] => /\ c_pc[k] # "noperm"
                     /\ ~BusyRejected(cmdId[k])

\* C36: the state handlers are consistent with the matrix: whenever the handler
\* class of a state accepts a command, the state it passes to change_state is
\* a transition from that state that state_matrix marks true
C36_HandlersMatchMatrix ==
  /\ (l_last.op = "execute" /\ l_last.consulted /\ l_last.from \in HandlerNames)
       => /\ <<l_last.from, MethodOf(l_last.arg), l_last.target>> \in Overrides
          /\ state_matrix[StateIndex(l_last.from)][StateIndex(l_last.target)]
          /\ l_last.allowed

\* the states one command executed in state s can leave the device in
CommandSucc(s) ==
  {t \in LifecycleStates :
     \E command \in LifeCommands :
       LET h == Handler(StateHandler(s), MethodOf(command))
       IN  h.call = "change_state" /\ Changed(s, h.target).state = t}

\* the states some sequence of commands leads to from the states of S
RECURSIVE CommandReach(_)
CommandReach(S) ==
  LET T == S \cup UNION {CommandSucc(s) : s \in S}
  IN  IF T = S THEN S ELSE CommandReach(T)

C38_DefaultTimeout ==
  [][\A c \in Callers :
       /\ \A k \in SendCmds, wait \in BOOLEAN :
            /\ \A t \in FloatTimeouts :
                 SendCommandInt(c, k, t, wait) => timeout' = int(t)
            /\ SendCommandInt(c, k, NoArg, wait) => timeout' = timeout
       /\ (w_pc[c] = "begin" /\ w_pc'[c] = "loop" /\ w_timeout[c] = NoArg)
            => w_tout'[c] = timeout]_vars

\* the controller has taken id from the transport and is replying to it
SyncReplying(k, id) == cmdId[k] = id /\ c_pc[k] \in {"reply", "execute"}

====
